---- MODULE Spec2Model ----
(***************************************************************************)
(* Model of the gentle-man Telegram bot: the chat-scoped vector memory     *)
(* (app/services/vector_store.py), the response gate and context assembly  *)
(* of MessageHandler.handle_message (app/handlers/message_handler.py) and  *)
(* the bot throttle of GeminiService (app/services/ai_service.py).         *)
(*                                                                         *)
(* A text is a sequence of one-character strings, so that emptiness,       *)
(* str.strip(), str.lower() and substring search are computed as Python    *)
(* computes them.  Python lists are sequences; positions are 1-based here. *)
(***************************************************************************)
EXTENDS Integers, Sequences, FiniteSets, TLC

VARIABLES
    index,       \* VectorStore.index: the vectors held by the FAISS index, in insertion order
    metadata,    \* VectorStore.metadata: list of metadata dicts
    diskIndex,   \* the file faiss.index: missing, corrupt, or a written index
    diskMeta,    \* the file metadata.pkl: missing, corrupt, or a pickled list
    users,       \* table users, by telegram_id
    db_messages, \* table messages, in insertion order
    db_references, \* table message_references, in insertion order
    pc,          \* where the inbound update stands: "waiting" or "handled"
    now,         \* the wall clock the scheduler reads, in minutes
    last_message_dates, \* DailyMessageScheduler.last_message_dates, by chat_id
    lastOp       \* history: the operation that produced this state, its arguments and result

vars == <<index, metadata, diskIndex, diskMeta, users, db_messages, db_references, pc,
          now, last_message_dates, lastOp>>

\* the relational store, the update in flight and the scheduler
dbvars == <<users, db_messages, db_references, pc, now, last_message_dates>>

\* the chats the scheduler can meet: three groups and a private chat
SchedulerChats == {-1, -2, -3, 1}

\* last_message_dates.get(chat_id) of a chat without an entry
NoDate == -1

\* the dict of a scheduler that has served no chat
no_dates == [c \in SchedulerChats |-> NoDate]

(***************************************************************************)
(* Bounds of the model.                                                    *)
(***************************************************************************)
dimension == 2     \* length of an embedding vector (1536 in the program)
MaxStore == 2     \* add_messages is not taken beyond this many stored records
MaxBatch == 2     \* longest batch handed to add_messages
MaxK == 2     \* largest k / limit of a query

\* Python's None where a chat id is expected (chat ids are never 0)
None == 0

Chats == {1, 2}
Users == {1, 2}

\* the agent's own account
BotId == 9
UserIds == Users \cup {BotId}

\* a telegram_id without a row in users
no_user == [present |-> FALSE, is_bot |-> FALSE, bot_message_count |-> 0]

\* the texts the environment supplies: empty, whitespace only, and two texts with content
Texts == { <<>>, <<" ">>, <<"h">>, <<" ", "y">> }

Range(s) == {s[i] : i \in 1..Len(s)}

Min(a, b) == IF a <= b THEN a ELSE b

(***************************************************************************)
(* Python helpers.                                                         *)
(***************************************************************************)
Whitespace == {" "}

RECURSIVE lstrip(_)
lstrip(text) ==
    IF text # <<>> /\ Head(text) \in Whitespace THEN lstrip(Tail(text)) ELSE text

RECURSIVE rstrip(_)
rstrip(text) ==
    IF text # <<>> /\ text[Len(text)] \in Whitespace
    THEN rstrip(SubSeq(text, 1, Len(text) - 1))
    ELSE text

\* str.strip()
strip(text) == rstrip(lstrip(text))

\* the condition `text and text.strip()` of encode, add_messages and search
has_text(text) == text # <<>> /\ strip(text) # <<>>

\* lst[-n:] for n >= 0; lst[-0:] is lst[0:], the whole list
slice_last(lst, n) ==
    IF n = 0 \/ n >= Len(lst) THEN lst
    ELSE SubSeq(lst, Len(lst) - n + 1, Len(lst))

\* lst[:n] for n >= 0
slice_first(lst, n) == SubSeq(lst, 1, Min(n, Len(lst)))

(***************************************************************************)
(* Embedding backend and FAISS index.                                      *)
(***************************************************************************)
zero_vector == [i \in 1..dimension |-> 0]

\* code point of a character, as far as the backend stub needs it
code_of(ch) == IF ch = " " THEN 1 ELSE IF ch = "h" THEN 2 ELSE IF ch = "y" THEN 3 ELSE 4

\* one embedding of client.embeddings.create: a non-zero vector determined by the text
embedding_of(text) ==
    [i \in 1..dimension |-> IF i = 1 THEN Len(text) ELSE code_of(text[Len(text)])]

\* encode with a fallback that gives up the batch instead of substituting zeros
encode_without_fallback(texts, backend_ok) ==
    LET valid_texts == SelectSeq(texts, has_text)
    IN  IF backend_ok
        THEN [i \in 1..Len(valid_texts) |-> embedding_of(valid_texts[i])]
        ELSE <<>>

\* encode(texts): backend_ok = FALSE is the `except Exception` branch
encode(texts, backend_ok) ==
    LET valid_texts == SelectSeq(texts, has_text)
    IN  IF backend_ok
        THEN [i \in 1..Len(valid_texts) |-> embedding_of(valid_texts[i])]
        ELSE [i \in 1..Len(texts) |-> zero_vector]

\* squared L2 distance of IndexFlatL2
RECURSIVE sum_sq(_, _, _)
sum_sq(a, b, i) ==
    IF i = 0 THEN 0 ELSE (a[i] - b[i]) * (a[i] - b[i]) + sum_sq(a, b, i - 1)

l2_distance(a, b) == sum_sq(a, b, dimension)

\* a search that hands back the first n positions as they were inserted
faiss_search_unsorted(xb, query, n) == { [r \in 1..n |-> r] }

\* index.search(query, n): the positions of the n nearest vectors, nearest
\* first; FAISS leaves the order of equidistant vectors open, here they come
\* in insertion order or in its reverse
faiss_search(xb, query, n) ==
    { [r \in 1..n |->
          CHOOSE p \in 1..Len(xb) :
              Cardinality({ q \in 1..Len(xb) :
                  \/ l2_distance(xb[q], query) < l2_distance(xb[p], query)
                  \/ /\ l2_distance(xb[q], query) = l2_distance(xb[p], query)
                     /\ IF ascending THEN q < p ELSE q > p }) = r - 1]
      : ascending \in BOOLEAN }

(***************************************************************************)
(* VectorStore: persistence.                                               *)
(***************************************************************************)
\* what save() can leave behind: both files written; write_index raised
\* (file untouched or half written); open(metadata_path) raised after the
\* index was written; pickle.dump raised after the file was truncated
SaveOutcomes == {"ok", "index_unwritten", "index_partial", "meta_unopened", "meta_partial"}

\* a file: absent, unreadable, or holding the value written
Missing == [file |-> "missing", data |-> <<>>]
Corrupt == [file |-> "corrupt", data |-> <<>>]
Written(data) == [file |-> "written", data |-> data]

saved_index(idx, old, outcome) ==
    CASE outcome = "index_unwritten" -> old
      [] outcome = "index_partial"   -> Corrupt
      [] OTHER                       -> Written(idx)

saved_meta(meta, old, outcome) ==
    CASE outcome = "ok"           -> Written(meta)
      [] outcome = "meta_partial" -> Corrupt
      [] OTHER                    -> old

\* load() that restores the index and forgets the metadata file
loaded_index_only(idx, meta, dIndex, dMeta) ==
    IF dIndex.file # "missing" /\ dMeta.file # "missing"
    THEN IF dIndex.file = "corrupt" \/ dMeta.file = "corrupt"
         THEN <<(<<>>), (<<>>)>>
         ELSE <<dIndex.data, meta>>
    ELSE <<idx, meta>>

\* the state load() leaves in <<index, metadata>>
loaded(idx, meta, dIndex, dMeta) ==
    IF dIndex.file # "missing" /\ dMeta.file # "missing"
    THEN IF dIndex.file = "corrupt" \/ dMeta.file = "corrupt"
         THEN <<(<<>>), (<<>>)>>
         ELSE <<dIndex.data, dMeta.data>>
    ELSE <<idx, meta>>

(***************************************************************************)
(* VectorStore: operations.                                                *)
(***************************************************************************)
\* the filter of add_messages without the strip() test
msg_not_empty(msg) == msg.text # <<>>

msg_has_text(msg) == has_text(msg.text)

valid_messages(messages) == SelectSeq(messages, msg_has_text)

\* the dict appended to metadata for one message
meta_of(msg) ==
    [chat_id |-> msg.chat_id, user_id |-> msg.user_id, username |-> msg.username,
     text |-> msg.text, timestamp |-> msg.timestamp, message_id |-> msg.message_id]

\* an append that puts the new dicts in front of the list
added_metadata_in_front(idx, meta, messages, backend_ok) ==
    LET valid      == valid_messages(messages)
        texts      == [i \in 1..Len(valid) |-> valid[i].text]
        embeddings == encode(texts, backend_ok)
    IN  IF valid = <<>> THEN <<idx, meta, FALSE>>
        ELSE IF Len(embeddings) > 0
             THEN <<idx \o embeddings,
                    [i \in 1..Len(valid) |-> meta_of(valid[i])] \o meta,
                    TRUE>>
             ELSE <<idx, meta, FALSE>>

\* <<index, metadata, saved>> after add_messages(messages)
added(idx, meta, messages, backend_ok) ==
    LET valid      == valid_messages(messages)
        texts      == [i \in 1..Len(valid) |-> valid[i].text]
        embeddings == encode(texts, backend_ok)
    IN  IF valid = <<>> THEN <<idx, meta, FALSE>>
        ELSE IF Len(embeddings) > 0
             THEN <<idx \o embeddings,
                    meta \o [i \in 1..Len(valid) |-> meta_of(valid[i])],
                    TRUE>>
             ELSE <<idx, meta, FALSE>>

add_messages(messages, backend_ok, outcome) ==
    LET r == added(index, metadata, messages, backend_ok)
    IN  /\ index' = r[1]
        /\ metadata' = r[2]
        /\ diskIndex' = IF r[3] THEN saved_index(r[1], diskIndex, outcome) ELSE diskIndex
        /\ diskMeta' = IF r[3] THEN saved_meta(r[2], diskMeta, outcome) ELSE diskMeta
        /\ lastOp' = [op |-> "add_messages", stored |-> r[3], backend_ok |-> backend_ok]
        /\ UNCHANGED dbvars

save(outcome) ==
    /\ diskIndex' = saved_index(index, diskIndex, outcome)
    /\ diskMeta' = saved_meta(metadata, diskMeta, outcome)
    /\ lastOp' = [op |-> "save", outcome |-> outcome]
    /\ UNCHANGED <<index, metadata>>
    /\ UNCHANGED dbvars

load ==
    /\ index' = loaded(index, metadata, diskIndex, diskMeta)[1]
    /\ metadata' = loaded(index, metadata, diskIndex, diskMeta)[2]
    /\ lastOp' = [op |-> "load", after_save |-> lastOp.op = "save" /\ lastOp.outcome = "ok"]
    /\ UNCHANGED <<diskIndex, diskMeta>>
    /\ UNCHANGED dbvars

\* VectorStore(...): a fresh index and list, then load()
construct ==
    /\ index' = loaded(<<>>, <<>>, diskIndex, diskMeta)[1]
    /\ metadata' = loaded(<<>>, <<>>, diskIndex, diskMeta)[2]
    /\ lastOp' = [op |-> "__init__", after_save |-> lastOp.op = "save" /\ lastOp.outcome = "ok"]
    /\ UNCHANGED <<diskIndex, diskMeta>>
    /\ UNCHANGED dbvars

clear(outcome) ==
    /\ index' = <<>>
    /\ metadata' = <<>>
    /\ diskIndex' = saved_index(<<>>, diskIndex, outcome)
    /\ diskMeta' = saved_meta(<<>>, diskMeta, outcome)
    /\ lastOp' = [op |-> "clear"]
    /\ UNCHANGED dbvars

(***************************************************************************)
(* VectorStore: queries.                                                   *)
(***************************************************************************)
\* search_hits without the chat_id comparison
search_hits_unscoped(meta, xb, order, query_embedding, chat_id) ==
    LET hit(i) == order[i] >= 1 /\ order[i] <= Len(meta)
        hits == SelectSeq([i \in 1..Len(order) |-> i], hit)
    IN  [j \in 1..Len(hits) |->
            <<meta[order[hits[j]]], l2_distance(xb[order[hits[j]]], query_embedding)>>]

\* the candidate list `results` of search for one neighbour order
search_hits(meta, xb, order, query_embedding, chat_id) ==
    LET hit(i) == /\ order[i] >= 1
                  /\ order[i] <= Len(meta)
                  /\ meta[order[i]].chat_id = chat_id
        hits == SelectSeq([i \in 1..Len(order) |-> i], hit)
    IN  [j \in 1..Len(hits) |->
            <<meta[order[hits[j]]], l2_distance(xb[order[hits[j]]], query_embedding)>>]

\* search that looks through every chat when no chat_id is given
search_results_unguarded(meta, xb, query, k, chat_id, backend_ok) ==
    IF ~has_text(query) THEN {<<>>}
    ELSE LET query_embedding == encode(<<query>>, backend_ok)
         IN  IF Len(query_embedding) = 0 \/ Len(xb) = 0 THEN {<<>>}
             ELSE LET search_k == Min(k * 3, Len(xb))
                  IN  { slice_first(IF chat_id = None
                                    THEN search_hits_unscoped(meta, xb, order, query_embedding[1], chat_id)
                                    ELSE search_hits(meta, xb, order, query_embedding[1], chat_id), k) :
                          order \in faiss_search(xb, query_embedding[1], search_k) }

\* the lists search(query, k, chat_id) can return
search_results(meta, xb, query, k, chat_id, backend_ok) ==
    IF ~has_text(query) THEN {<<>>}
    ELSE IF chat_id = None THEN {<<>>}
    ELSE LET query_embedding == encode(<<query>>, backend_ok)
         IN  IF Len(query_embedding) = 0 \/ Len(xb) = 0 THEN {<<>>}
             ELSE LET search_k == Min(k * 3, Len(xb))
                  IN  { slice_first(search_hits(meta, xb, order, query_embedding[1], chat_id), k) :
                          order \in faiss_search(xb, query_embedding[1], search_k) }

user_context(meta, user_id, chat_id, limit) ==
    LET mine(m) == m.user_id = user_id /\ m.chat_id = chat_id
    IN  slice_last(SelectSeq(meta, mine), limit)

chat_context(meta, chat_id, limit) ==
    LET here(m) == m.chat_id = chat_id
    IN  slice_last(SelectSeq(meta, here), limit)

search(query, k, chat_id, backend_ok) ==
    /\ \E result \in search_results(metadata, index, query, k, chat_id, backend_ok) :
          lastOp' = [op |-> "search", query |-> query, k |-> k, chat_id |-> chat_id,
                     backend_ok |-> backend_ok, result |-> result]
    /\ UNCHANGED <<index, metadata, diskIndex, diskMeta>>
    /\ UNCHANGED dbvars

get_user_context(user_id, chat_id, limit) ==
    /\ lastOp' = [op |-> "get_user_context", user_id |-> user_id, chat_id |-> chat_id,
                  limit |-> limit, result |-> user_context(metadata, user_id, chat_id, limit)]
    /\ UNCHANGED <<index, metadata, diskIndex, diskMeta>>
    /\ UNCHANGED dbvars

get_chat_context(chat_id, limit) ==
    /\ lastOp' = [op |-> "get_chat_context", chat_id |-> chat_id,
                  limit |-> limit, result |-> chat_context(metadata, chat_id, limit)]
    /\ UNCHANGED <<index, metadata, diskIndex, diskMeta>>
    /\ UNCHANGED dbvars

(***************************************************************************)
(* The vector store driven through its interface: inserting, persisting    *)
(* and restoring.                                                          *)
(***************************************************************************)
\* a message dict as callers build it
message_dict(chat_id, user_id, text) ==
    [chat_id |-> chat_id, user_id |-> user_id, username |-> "u", text |-> text,
     timestamp |-> 0, message_id |-> 1]

\* the batches handed to add_messages: every mix of empty, blank and real texts
StoreMessages == { message_dict(1, 1, text) : text \in Texts }

StoreBatches == UNION { [1..n -> StoreMessages] : n \in 0..MaxBatch }

\* a first start: nothing on disk, the constructor has run
InitStore ==
    /\ index = <<>>
    /\ metadata = <<>>
    /\ diskIndex = Missing
    /\ diskMeta = Missing
    /\ users = [u \in UserIds |-> no_user]
    /\ db_messages = <<>>
    /\ db_references = <<>>
    /\ now = 0
    /\ last_message_dates = no_dates
    /\ pc = "waiting"
    /\ lastOp = [op |-> "__init__", after_save |-> FALSE]

NextStore ==
    \/ \E messages \in StoreBatches, backend_ok \in BOOLEAN, outcome \in SaveOutcomes :
          /\ Len(metadata) + Len(messages) <= MaxStore
          /\ Len(index) + Len(messages) <= MaxStore
          /\ add_messages(messages, backend_ok, outcome)
    \/ \E outcome \in SaveOutcomes : save(outcome)
    \/ load
    \/ construct
    \/ \E outcome \in SaveOutcomes : clear(outcome)

SpecStore == InitStore /\ [][NextStore]_vars

(***************************************************************************)
(* The vector store queried by conversation.                               *)
(***************************************************************************)
QueryMessages ==
    { message_dict(c, u, text) : c \in Chats, u \in Users, text \in {<<" ">>, <<"h">>} }

QueryBatches == UNION { [1..n -> QueryMessages] : n \in 1..1 }

NextQuery ==
    \/ \E messages \in QueryBatches, backend_ok \in BOOLEAN :
          /\ Len(metadata) + Len(messages) <= MaxStore
          /\ add_messages(messages, backend_ok, "ok")
    \/ \E query \in Texts, k \in 1..MaxK, chat_id \in Chats \cup {None}, backend_ok \in BOOLEAN :
          search(query, k, chat_id, backend_ok)
    \/ \E user_id \in Users, chat_id \in Chats, limit \in 0..MaxK :
          get_user_context(user_id, chat_id, limit)
    \/ \E chat_id \in Chats, limit \in 0..MaxK : get_chat_context(chat_id, limit)

SpecQuery == InitStore /\ [][NextQuery]_vars

(***************************************************************************)
(* MessageHandler.handle_message.                                          *)
(***************************************************************************)
RecentLimit == 6      \* chat_context[-6:] and get_user_context(limit=6)
SimilarLimit == 6      \* search(k=6) and `added_similar >= 6`
ContextLimit == 12     \* enhanced_context[:12] and get_chat_context(limit=12)
BotReplyEvery == 5     \* should_respond_to_bot: bot_message_count % 5

MaxCalls == 4    \* longest run of failing transport calls in one handling

\* MessageHandler.bot_username, lower-cased by set_bot_username
bot_username == <<"b">>

\* str.lower() over the characters in use
lower_char(ch) == IF ch = "B" THEN "b" ELSE IF ch = "H" THEN "h" ELSE ch

lower(text) == [i \in 1..Len(text) |-> lower_char(text[i])]

\* `sub in text`
contains(sub, text) ==
    \E i \in 1..(Len(text) - Len(sub) + 1) : SubSeq(text, i, i + Len(sub) - 1) = sub

\* _is_bot_mentioned
is_bot_mentioned(text) ==
    IF bot_username = <<>> \/ text = <<>> THEN FALSE
    ELSE contains(<<"@">> \o bot_username, lower(text))

\* GeminiService.should_respond_to_bot with another period
should_respond_to_bot_every_4th(bot_message_count) == bot_message_count % 4 = 0

\* GeminiService.should_respond_to_bot
should_respond_to_bot(bot_message_count) == bot_message_count % BotReplyEvery = 0

\* _get_or_create_user: the users table afterwards (is_bot is set on insert only)
get_or_create_user(table, tg_user) ==
    IF table[tg_user.id].present THEN table
    ELSE [table EXCEPT ![tg_user.id] =
             [present |-> TRUE, is_bot |-> tg_user.is_bot, bot_message_count |-> 0]]

\* the row _store_message_in_db inserts
db_message_of(message) ==
    [telegram_message_id |-> message.message_id, chat_id |-> message.chat_id,
     user_id |-> message.from_user.id, text |-> message.text, is_deleted |-> FALSE]

\* _store_message_in_db that loses the row
store_message_in_db_lost(rows, message) == rows

\* _store_message_in_db: the messages table afterwards
store_message_in_db(rows, message) == Append(rows, db_message_of(message))

\* _track_message_reference: the rows with the telegram id replied to
referenced_rows(rows, to_msg_telegram_id) ==
    { i \in 1..Len(rows) : rows[i].telegram_message_id = to_msg_telegram_id }

\* the dict _store_message_context hands to add_messages
context_dict(message) ==
    [chat_id |-> message.chat_id, user_id |-> message.from_user.id, username |-> "u",
     text |-> message.text, timestamp |-> 0, message_id |-> message.message_id]

\* _store_message_context that stores nothing
store_message_context_skipped(idx, meta, message, backend_ok) == <<idx, meta, FALSE>>

\* _store_message_context: <<index, metadata, saved>> afterwards
store_message_context(idx, meta, message, backend_ok) ==
    added(idx, meta, <<context_dict(message)>>, backend_ok)

\* the merge loops without the `not in enhanced_context` test
RECURSIVE append_all(_, _, _)
append_all(acc, lst, room) ==
    IF lst = <<>> \/ room <= 0 THEN acc
    ELSE append_all(Append(acc, Head(lst)), Tail(lst), room - 1)

\* `for msg in lst: if msg not in acc: acc.append(msg)`, at most `room` appends
RECURSIVE append_new(_, _, _)
append_new(acc, lst, room) ==
    IF lst = <<>> \/ room <= 0 THEN acc
    ELSE IF \E i \in 1..Len(acc) : acc[i] = Head(lst)
         THEN append_new(acc, Tail(lst), room)
         ELSE append_new(Append(acc, Head(lst)), Tail(lst), room - 1)

\* enhanced_context -> context_messages, for one result of search
merge_context(chat_ctx, similar_messages) ==
    LET recent   == append_new(<<>>, slice_last(chat_ctx, RecentLimit), RecentLimit)
        similar  == [i \in 1..Len(similar_messages) |-> similar_messages[i][1]]
        enhanced == append_new(recent, similar, SimilarLimit)
    IN  slice_first(enhanced, ContextLimit)

\* context assembly that asks for the author's records in every kind of chat
assembled_for_every_scope(meta, xb, message, backend_ok) ==
    LET chat_ctx == chat_context(meta, message.chat_id, RecentLimit)
        user_ctx == user_context(meta, message.from_user.id, message.chat_id, RecentLimit)
    IN  { <<user_ctx, merge_context(chat_ctx, similar)>> :
            similar \in search_results(meta, xb, message.text, SimilarLimit,
                                       message.chat_id, backend_ok) }

\* the <<user_context, context_messages>> pairs handle_message can hand to generate_response
assembled(meta, xb, message, backend_ok) ==
    LET is_group_chat == message.chat_type \in {"group", "supergroup"}
        chat_ctx == IF is_group_chat
                    THEN chat_context(meta, message.chat_id, ContextLimit)
                    ELSE chat_context(meta, message.chat_id, RecentLimit)
        user_ctx == IF is_group_chat THEN <<>>
                    ELSE user_context(meta, message.from_user.id, message.chat_id, RecentLimit)
    IN  { <<user_ctx, merge_context(chat_ctx, similar)>> :
            similar \in search_results(meta, xb, message.text, SimilarLimit,
                                       message.chat_id, backend_ok) }

\* the conditions handle_message computes before it decides (lines 78-131)
is_reply_to_bot(message) ==
    message.reply_to_message.present /\ message.reply_to_message.from_user_id = BotId

\* `user.username or user.first_name` of the author
username_of(user) == "u"

\* GeminiService.build_context: the prompt, part by part (the loop over
\* chat_context rebinds `username` to the author of the last entry)
build_context(message, user_ctx, chat_ctx, mentioned, is_reply, from_bot, username) ==
    LET shown    == slice_last(chat_ctx, 10)
        history  == slice_last(user_ctx, 5)
        username1 == IF chat_ctx # <<>> THEN shown[Len(shown)].username ELSE username
    IN  [system   |-> "system_prompt",
         chat     |-> [i \in 1..(IF chat_ctx # <<>> THEN Len(shown) ELSE 0) |->
                          <<shown[i].username, shown[i].text>>],
         user     |-> [i \in 1..(IF user_ctx # <<>> THEN Len(history) ELSE 0) |->
                          history[i].text],
         special  |-> IF from_bot THEN "bot_interaction"
                      ELSE IF mentioned THEN "direct_mention"
                      ELSE IF is_reply THEN "reply_to_message" ELSE "none",
         username |-> username1,
         message  |-> message]

\* GeminiService.generate_response: the payload posted to the generation
\* backend; `prompt` is built and the payload is made of the system prompt
\* and user_message alone (temperature in tenths)
generate_request(message, user_ctx, chat_ctx, mentioned, is_reply, from_bot, username) ==
    LET prompt       == build_context(message, user_ctx, chat_ctx, mentioned, is_reply,
                                      from_bot, username)
        user_message == <<username, message>>
    IN  [model |-> "model", system |-> "system_prompt", user |-> user_message,
         temperature |-> 7, max_tokens |-> 300]

\* the texts the generation backend and the handler produce
GeneratedText == <<"r">>        \* a reply of the language model
FallbackText == <<"f">>        \* _get_fallback_response / _get_rate_limit_response
ApologyText == <<"s">>        \* the fixed apology of handle_message
Affirmative == <<"t", "r", "u", "e">>

RateLimitText == <<"l">>        \* _get_rate_limit_response

max_retries == 3

\* what the backend does with one request: HTTP 200 with a completion, HTTP
\* 429, another HTTP status, a timeout, any other exception
BackendOutcomes == {"200", "429", "status", "timeout", "exception"}

\* the loop of generate_response from `attempt` on (attempt counts from 0):
\* the text returned and the requests made
RECURSIVE generate_attempt(_, _)
generate_attempt(outcomes, attempt) ==
    IF attempt >= max_retries
    THEN [text |-> FallbackText, requests |-> attempt, raised |-> FALSE]
    ELSE CASE outcomes[attempt + 1] = "200" ->
                [text |-> GeneratedText, requests |-> attempt + 1, raised |-> FALSE]
           [] outcomes[attempt + 1] = "429" ->
                IF attempt < max_retries - 1
                THEN generate_attempt(outcomes, attempt + 1)
                ELSE [text |-> RateLimitText, requests |-> attempt + 1, raised |-> FALSE]
           [] outcomes[attempt + 1] = "status" ->
                [text |-> FallbackText, requests |-> attempt + 1, raised |-> FALSE]
           [] OTHER ->
                IF attempt < max_retries - 1
                THEN generate_attempt(outcomes, attempt + 1)
                ELSE [text |-> FallbackText, requests |-> attempt + 1, raised |-> FALSE]

\* a generate_response that answers the third 429 with the fallback text
generate_response_one_text(outcomes) ==
    LET r == generate_attempt(outcomes, 0)
    IN  IF r.text = RateLimitText THEN [r EXCEPT !.text = FallbackText] ELSE r

\* generate_response for the outcomes of its requests
generate_response(outcomes) == generate_attempt(outcomes, 0)

\* what the decision call of _should_reference_message can answer
\* (a plain yes, a yes that names index 3 and style forward, a no, and the
\* fallback text generate_response returns when the call fails)
DecisionAnswers ==
    { <<"T", "r", "u", "e">>, <<"t", "R", "U", "E", "3", "forward">>, <<"n", "o">>, FallbackText }

\* decision.lower() over the characters in use
lower_answer(text) ==
    [i \in 1..Len(text) |->
        IF text[i] = "T" THEN "t" ELSE IF text[i] = "R" THEN "r"
        ELSE IF text[i] = "U" THEN "u" ELSE IF text[i] = "E" THEN "e" ELSE text[i]]

\* _find_relevant_messages: the rows of the chat that are not deleted, newest first
find_relevant_messages(rows, chat_id) ==
    LET here(i) == rows[i].chat_id = chat_id /\ ~rows[i].is_deleted
        hits == SelectSeq([i \in 1..Len(rows) |-> i], here)
        newest_first == [j \in 1..Len(hits) |-> rows[hits[Len(hits) + 1 - j]]]
    IN  slice_first(newest_first, 50)

\* the decision dict: telegram_id and text are those of decision['message'],
\* telegram_id 0 stands for a message that is None; _should_reference_message
\* returns None where no_reference stands
\* the text of a target dict whose 'text' is None
NoneText == <<"None">>

no_reference == [should_reference |-> FALSE, telegram_id |-> 0, text |-> <<>>, type |-> "none"]

\* _should_reference_message that takes the oldest candidate
should_reference_message_oldest(relevant_messages, answer) ==
    IF relevant_messages = <<>> THEN no_reference
    ELSE IF contains(Affirmative, lower_answer(answer))
         THEN [should_reference |-> TRUE,
               telegram_id |-> relevant_messages[Len(relevant_messages)].telegram_message_id,
               text |-> relevant_messages[Len(relevant_messages)].text,
               type |-> "reply"]
         ELSE no_reference

\* _should_reference_message that references whatever the answer says
should_reference_message_always(relevant_messages, answer) ==
    IF relevant_messages = <<>> THEN no_reference
    ELSE [should_reference |-> TRUE,
          telegram_id |-> relevant_messages[1].telegram_message_id,
          text |-> relevant_messages[1].text,
          type |-> "reply"]

\* _should_reference_message: the decision for the answer of the decision call
should_reference_message(relevant_messages, answer) ==
    IF relevant_messages = <<>> THEN no_reference
    ELSE IF contains(Affirmative, lower_answer(answer))
         THEN [should_reference |-> TRUE,
               telegram_id |-> relevant_messages[1].telegram_message_id,
               text |-> relevant_messages[1].text,
               type |-> "reply"]
         ELSE no_reference

\* what one call of the Telegram transport can do: succeed, raise BadRequest
\* (the message referred to is not found), or raise another TelegramError
TransportOutcomes == {"ok", "BadRequest", "TelegramError"}

\* the outcome of the i-th transport call of one handling; a plan lists the
\* outcomes of the first calls, the calls after it succeed
transport(plan, i) == IF i <= Len(plan) THEN plan[i] ELSE "ok"

\* the outcomes of the first n calls
transported(plan, n) == [i \in 1..n |-> transport(plan, i)]

\* the transport during one handle_message: up, or down for the first calls
TransportPlans ==
    { [i \in 1..n |-> error] : n \in 0..MaxCalls, error \in {"BadRequest", "TelegramError"} }

\* a message handed to bot.send_message / message.reply_text
outbound(chat_id, text, reply_to_message_id) ==
    [chat_id |-> chat_id, text |-> text, reply_to_message_id |-> reply_to_message_id,
     forward_of |-> 0]

\* a message handed to bot.forward_message
forwarded(chat_id, message_id) ==
    [chat_id |-> chat_id, text |-> <<>>, reply_to_message_id |-> 0, forward_of |-> message_id]

\* what _send_with_reference has done: the messages delivered, the messages
\* it tried to send, the transport calls made, whether an exception leaves it
send_result(sent, tried, raised) ==
    [sent |-> sent, tried |-> tried, calls |-> Len(tried), raised |-> raised]

\* an `except TelegramError` handler that swallows the error and sends nothing
last_resort_dropped(plain, sent, tried, plan) == send_result(sent, tried, FALSE)

\* the `except TelegramError` handler: the plain reply, unguarded
last_resort(plain, sent, tried, plan) ==
    IF transport(plan, Len(tried) + 1) = "ok"
    THEN send_result(Append(sent, plain), Append(tried, plain), FALSE)
    ELSE send_result(sent, Append(tried, plain), TRUE)

\* an `except BadRequest` handler: the plain reply, inside the outer try
not_resolvable(plain, sent, tried, plan) ==
    IF transport(plan, Len(tried) + 1) = "ok"
    THEN send_result(Append(sent, plain), Append(tried, plain), FALSE)
    ELSE last_resort(plain, sent, Append(tried, plain), plan)

\* _send_with_reference
send_with_reference(chat_id, response, decision, original_msg_id, plan) ==
    LET ref_msg  == decision.telegram_id # 0
        plain    == outbound(chat_id, response, original_msg_id)
        framed   == outbound(chat_id, <<"ref">> \o response, decision.telegram_id)
        forward  == forwarded(chat_id, decision.telegram_id)
        followup == outbound(chat_id, <<"above">> \o response, 0)
        quoted   == outbound(chat_id,
                             <<"quote">> \o slice_first(decision.text, 100) \o response,
                             original_msg_id)
    IN  IF decision.type = "reply" /\ ref_msg
        THEN IF transport(plan, 1) = "ok"
             THEN send_result(<<framed>>, <<framed>>, FALSE)
             ELSE IF transport(plan, 1) = "BadRequest"
                  THEN not_resolvable(plain, <<>>, <<framed>>, plan)
                  ELSE last_resort(plain, <<>>, <<framed>>, plan)
        ELSE IF decision.type = "forward" /\ ref_msg
        THEN IF transport(plan, 1) = "ok"
             THEN IF transport(plan, 2) = "ok"
                  THEN send_result(<<forward, followup>>, <<forward, followup>>, FALSE)
                  ELSE IF transport(plan, 2) = "BadRequest"
                       THEN not_resolvable(plain, <<forward>>, <<forward, followup>>, plan)
                       ELSE last_resort(plain, <<forward>>, <<forward, followup>>, plan)
             ELSE IF transport(plan, 1) = "BadRequest"
                  THEN not_resolvable(plain, <<>>, <<forward>>, plan)
                  ELSE last_resort(plain, <<>>, <<forward>>, plan)
        ELSE IF ref_msg /\ decision.text = NoneText
        THEN send_result(<<>>, <<>>, TRUE)    \* None[:100]: TypeError, not a TelegramError
        ELSE IF transport(plan, 1) = "ok"
             THEN send_result(<<quoted>>, <<quoted>>, FALSE)
             ELSE last_resort(plain, <<>>, <<quoted>>, plan)

\* the row and the dict _store_bot_response writes for a sent reply
bot_response_row(chat_id, response, sent_message_id) ==
    [telegram_message_id |-> sent_message_id, chat_id |-> chat_id,
     user_id |-> BotId, text |-> response, is_deleted |-> FALSE]

bot_response_dict(chat_id, response, sent_message_id) ==
    [chat_id |-> chat_id, user_id |-> BotId, username |-> "b",
     text |-> response, timestamp |-> 0, message_id |-> sent_message_id]

\* the id Telegram gives the message the agent sends in reply
sent_id(message) == message.message_id + 1

\* handle_message from the typing indicator on (lines 139-228): the state
\* and the history it leaves, given the tables after the message was stored
respond(message, table, rows, refs, env) ==
    LET relevant == find_relevant_messages(rows, message.chat_id)
        response == IF env.generation = "text" THEN GeneratedText ELSE FallbackText
        decision == should_reference_message(relevant, env.answer)
        base == [users |-> table, rows |-> rows, refs |-> refs,
                 index |-> index, metadata |-> metadata, saved |-> FALSE,
                 sent |-> <<>>, tried |-> <<>>, transport |-> <<>>,
                 user_context |-> <<>>, context_messages |-> <<>>,
                 generated |-> FALSE, response |-> <<>>, decision |-> no_reference,
                 reply_request |-> <<>>, db_failed |-> FALSE, outcome |-> "none"]
        gen      == [base EXCEPT !.user_context = env.context[1],
                                 !.context_messages = env.context[2],
                                 !.reply_request =
                                     <<generate_request(message.text, env.context[1],
                                           env.context[2], is_bot_mentioned(message.text),
                                           is_reply_to_bot(message),
                                           table[message.from_user.id].is_bot,
                                           username_of(message.from_user))>>,
                                 !.generated = TRUE,
                                 !.response = response,
                                 !.decision = decision]
        sorry    == outbound(message.chat_id, ApologyText, 0)
        \* the `except Exception` handler of handle_message
        apology(b) ==
            IF transport(env.plan, Len(b.tried) + 1) = "ok"
            THEN [b EXCEPT !.sent = Append(b.sent, sorry),
                           !.tried = Append(b.tried, sorry),
                           !.transport = transported(env.plan, Len(b.tried) + 1),
                           !.outcome = "apologized"]
            ELSE [b EXCEPT !.tried = Append(b.tried, sorry),
                           !.transport = transported(env.plan, Len(b.tried) + 1),
                           !.outcome = "raised"]
        \* _store_message_context at the end of the try block
        inbound(b) ==
            LET r == store_message_context(b.index, b.metadata, message, env.backend_ok)
            IN  [b EXCEPT !.index = r[1], !.metadata = r[2], !.saved = b.saved \/ r[3],
                          !.transport = transported(env.plan, Len(b.tried)),
                          !.outcome = "replied"]
        reply    == outbound(message.chat_id, response, message.message_id)
    IN  IF ~env.typing_ok THEN [base EXCEPT !.outcome = "raised"]
        ELSE IF decision.should_reference
        THEN LET r == send_with_reference(message.chat_id, response, decision,
                                          message.message_id, env.plan)
             IN  IF r.raised THEN apology([gen EXCEPT !.sent = r.sent, !.tried = r.tried])
                 ELSE inbound([gen EXCEPT !.sent = r.sent, !.tried = r.tried])
        ELSE IF transport(env.plan, 1) = "ok" /\ ~env.db_ok
             \* the reply is out and _store_bot_response raises at its first statement
             THEN apology([gen EXCEPT !.sent = <<reply>>, !.tried = <<reply>>,
                                      !.db_failed = TRUE])
        ELSE IF transport(env.plan, 1) = "ok"
             THEN LET a == added(index, metadata,
                                 <<bot_response_dict(message.chat_id, response, sent_id(message))>>,
                                 env.backend_ok)
                  IN  inbound([gen EXCEPT
                          !.sent = <<reply>>,
                          !.tried = <<reply>>,
                          !.rows = Append(rows, bot_response_row(message.chat_id, response,
                                                                 sent_id(message))),
                          !.users = [table EXCEPT ![BotId] =
                                        IF table[BotId].present THEN table[BotId]
                                        ELSE [present |-> TRUE, is_bot |-> TRUE,
                                              bot_message_count |-> 0]],
                          !.index = a[1], !.metadata = a[2], !.saved = a[3]])
             ELSE apology([gen EXCEPT !.tried = <<reply>>])

\* a throttle that counts every message of a bot, addressed to the agent or not
counted_every_bot_message(table, message) ==
    LET table1 == get_or_create_user(table, message.from_user)
    IN  IF table1[message.from_user.id].is_bot
        THEN [table1 EXCEPT ![message.from_user.id].bot_message_count = @ + 1]
        ELSE table1

\* the users table once the author is recorded and the throttle has counted
counted(table, message) ==
    LET table1 == get_or_create_user(table, message.from_user)
        db_user == table1[message.from_user.id]
    IN  IF db_user.is_bot /\ ~is_bot_mentioned(message.text) /\ ~is_reply_to_bot(message)
        THEN [table1 EXCEPT ![message.from_user.id].bot_message_count = @ + 1]
        ELSE table1

\* the way handle_message takes for a message
gate(table, rows, message) ==
    LET table1 == get_or_create_user(table, message.from_user)
        db_user == table1[message.from_user.id]
        table2 == counted(table, message)
        rows1 == store_message_in_db(rows, message)
    IN  IF message.text = <<>> THEN "ignored"
        ELSE IF /\ db_user.is_bot /\ ~is_bot_mentioned(message.text) /\ ~is_reply_to_bot(message)
                /\ ~should_respond_to_bot(table2[message.from_user.id].bot_message_count)
        THEN "throttled"
        ELSE IF /\ message.reply_to_message.present
                /\ Cardinality(referenced_rows(rows1, message.reply_to_message.message_id)) > 1
        THEN "raised"
        ELSE IF ~(\/ is_bot_mentioned(message.text)
                  \/ is_reply_to_bot(message)
                  \/ message.chat_type = "private")
        THEN "not_addressed"
        ELSE "respond"

\* handle_message(update, context) for one inbound message; env holds what
\* the backends and the transport do during this handling
handle_message(message, env) ==
    LET way    == gate(users, db_messages, message)
        table2 == counted(users, message)
        rows1  == store_message_in_db(db_messages, message)
        targets == referenced_rows(rows1, message.reply_to_message.message_id)
        refs1  == IF message.reply_to_message.present /\ Cardinality(targets) = 1
                  THEN Append(db_references,
                              [from_message_id |-> Len(rows1),
                               to_message_id |-> CHOOSE i \in targets : TRUE,
                               reference_type |-> "reply"])
                  ELSE db_references
        silent == [users |-> table2, rows |-> rows1, refs |-> db_references,
                   index |-> index, metadata |-> metadata, saved |-> FALSE,
                   sent |-> <<>>, tried |-> <<>>, transport |-> <<>>,
                   user_context |-> <<>>, context_messages |-> <<>>,
                   generated |-> FALSE, response |-> <<>>, decision |-> no_reference,
                   reply_request |-> <<>>, db_failed |-> FALSE, outcome |-> way]
        stored == store_message_context(index, metadata, message, env.backend_ok)
        result ==
            CASE way = "ignored" ->
                   [silent EXCEPT !.users = users, !.rows = db_messages]
              [] way = "throttled" ->
                   [silent EXCEPT !.index = stored[1], !.metadata = stored[2],
                                  !.saved = stored[3]]
              [] way = "raised" -> silent
              [] way = "not_addressed" ->
                   [silent EXCEPT !.refs = refs1, !.index = stored[1],
                                  !.metadata = stored[2], !.saved = stored[3]]
              [] OTHER -> respond(message, table2, rows1, refs1, env)
    IN  \E after \in {result} :
        /\ pc = "waiting"
        /\ pc' = "handled"
        /\ UNCHANGED <<now, last_message_dates>>
        /\ users' = after.users
        /\ db_messages' = after.rows
        /\ db_references' = after.refs
        /\ index' = after.index
        /\ metadata' = after.metadata
        /\ diskIndex' = IF after.saved THEN saved_index(after.index, diskIndex, env.save)
                        ELSE diskIndex
        /\ diskMeta' = IF after.saved THEN saved_meta(after.metadata, diskMeta, env.save)
                       ELSE diskMeta
        /\ lastOp' = [op |-> "handle_message", message |-> message, way |-> way,
                      outcome |-> after.outcome, sent |-> after.sent,
                      tried |-> after.tried, transport |-> after.transport,
                      generated |-> after.generated,
                      response |-> after.response, decision |-> after.decision,
                      user_context |-> after.user_context,
                      context_messages |-> after.context_messages,
                      reply_request |-> after.reply_request,
                      db_failed |-> after.db_failed,
                      backend_ok |-> env.backend_ok, typing_ok |-> env.typing_ok,
                      generation |-> env.generation, answer |-> env.answer,
                      after_reset |-> lastOp.reset]

(***************************************************************************)
(* One inbound update handled by a bot that starts with what earlier runs  *)
(* left in the relational store and in the vector store.                   *)
(***************************************************************************)
MaxBotCount == 11    \* largest bot_message_count an earlier run left behind
MaxMemory == 13    \* most records an earlier run left in the vector store

HandlerChats == {1, 2, 3}

chat_type_of(chat_id) ==
    IF chat_id = 1 THEN "private" ELSE IF chat_id = 2 THEN "group" ELSE "supergroup"

\* account 2 is another bot, account 1 a person
tg_user(id) == [id |-> id, is_bot |-> (id = 2)]

NoReply == [present |-> FALSE, message_id |-> 0, from_user_id |-> 0]

\* the inbound messages: Telegram delivers no text of whitespace only;
\* a message without text (a photo, a sticker) has text <<>>
Updates ==
    [message_id : {5}, chat_id : HandlerChats, chat_type : {"private"},
     from_user : {tg_user(1)}, text : {<<>>}, reply_to_message : {NoReply}]
    \cup
    { [message_id |-> 5, chat_id |-> c, chat_type |-> chat_type_of(c),
       from_user |-> tg_user(u), text |-> t, reply_to_message |-> r] :
        c \in HandlerChats, u \in Users, t \in { <<"h">>, <<"h", "@", "B">> },
        r \in { NoReply,
                [present |-> TRUE, message_id |-> 1, from_user_id |-> BotId],
                [present |-> TRUE, message_id |-> 1, from_user_id |-> 1] } }

\* what an earlier run left in the vector store: n records of the group
\* (message ids all different, or all the same), spread over the chats, or
\* all of the private conversation;
\* the older half reads "h", the newer half mentions the agent
remembered_text(i, n) == IF 2 * i <= n + 1 THEN <<"h">> ELSE <<"h", "@", "B">>

remembered(n, style) ==
    [i \in 1..n |->
        [chat_id |-> IF style = "spread" THEN (i % 3) + 1
                     ELSE IF style = "direct" THEN 1 ELSE 2,
         user_id |-> (i % 2) + 1, username |-> "u",
         text |-> remembered_text(i, n),
         timestamp |-> 0,
         message_id |-> IF style = "repeated" THEN 1
                        ELSE IF style = "spread" THEN ((i - 1) \div 3) + 1 ELSE i]]

\* its vectors: every fifth embedding call had failed
remembered_vectors(n) ==
    [i \in 1..n |-> IF i % 5 = 0 THEN zero_vector ELSE embedding_of(remembered_text(i, n))]

\* the messages table of that earlier run: one row per remembered record
earlier_rows(meta) ==
    [i \in 1..Len(meta) |->
        [telegram_message_id |-> meta[i].message_id, chat_id |-> meta[i].chat_id,
         user_id |-> meta[i].user_id, text |-> meta[i].text, is_deleted |-> FALSE]]

\* the users table of that earlier run: the authors of the rows, and the
\* other bot with the count its unanswered messages reached
earlier_users(meta, count) ==
    [u \in UserIds |->
        IF (\E i \in 1..Len(meta) : meta[i].user_id = u) \/ (u = 2 /\ count > 0)
        THEN [present |-> TRUE, is_bot |-> (u = 2),
              bot_message_count |-> IF u = 2 THEN count ELSE 0]
        ELSE no_user]

\* the process before GentleBot.run: an earlier run left its tables and its
\* two files, which have stayed readable or were damaged since
Init ==
    /\ \E n \in 0..MaxMemory, style \in {"distinct", "repeated", "spread", "direct"},
          count \in 0..MaxBotCount, damage \in {"none", "index", "metadata"} :
          /\ n <= 1 \/ count = BotReplyEvery - 1
          /\ damage # "none" => (n = 2 /\ style = "spread")
          /\ diskIndex = IF n = 0 THEN Missing
                         ELSE IF damage = "index" THEN Corrupt
                         ELSE Written(remembered_vectors(n))
          /\ diskMeta = IF n = 0 THEN Missing
                        ELSE IF damage = "metadata" THEN Corrupt
                        ELSE Written(remembered(n, style))
          /\ users = earlier_users(remembered(n, style), count)
          /\ db_messages = earlier_rows(remembered(n, style))
    /\ index = <<>>
    /\ metadata = <<>>
    /\ db_references = <<>>
    /\ now = 0
    /\ last_message_dates = no_dates
    /\ pc = "starting"
    /\ lastOp = [op |-> "none", reset |-> FALSE]

\* GentleBot.run: VectorStore(...) builds an empty store and calls load()
run ==
    /\ pc = "starting"
    /\ pc' = "waiting"
    /\ index' = loaded(<<>>, <<>>, diskIndex, diskMeta)[1]
    /\ metadata' = loaded(<<>>, <<>>, diskIndex, diskMeta)[2]
    /\ lastOp' = [op |-> "run",
                  reset |-> diskIndex.file = "corrupt" \/ diskMeta.file = "corrupt"]
    /\ UNCHANGED <<diskIndex, diskMeta, users, db_messages, db_references, now, last_message_dates>>

\* the updates that report a deleted message
DeletedUpdates == { [message_id |-> id, chat_id |-> c] : id \in {1, 5}, c \in HandlerChats }

\* handle_deleted_message: the row found by the transport message id is
\* marked; scalar_one_or_none raises when several rows carry that id
handle_deleted_message(message) ==
    LET targets == referenced_rows(db_messages, message.message_id)
    IN  /\ pc = "waiting"
        /\ pc' = "handled"
        /\ db_messages' = IF Cardinality(targets) = 1
                          THEN [db_messages EXCEPT ![CHOOSE i \in targets : TRUE].is_deleted = TRUE]
                          ELSE db_messages
        /\ lastOp' = [op |-> "handle_deleted_message", message |-> message,
                      outcome |-> IF Cardinality(targets) > 1 THEN "raised"
                                  ELSE IF Cardinality(targets) = 1 THEN "marked" ELSE "none"]
        /\ UNCHANGED <<index, metadata, diskIndex, diskMeta, users, db_references,
                       now, last_message_dates>>

\* what the backends, the database and the transport do while a reply is made
Environments(message, backend_ok) ==
    { [backend_ok |-> backend_ok, save |-> "ok", typing_ok |-> TRUE, db_ok |-> db_ok,
       generation |-> generation, answer |-> answer, plan |-> plan, context |-> context] :
        generation \in {"text", "fallback"}, answer \in DecisionAnswers,
        plan \in TransportPlans, db_ok \in BOOLEAN,
        context \in assembled(metadata, index, message, backend_ok) }

\* the environment of a handling that makes no reply
quiet(backend_ok, typing_ok) ==
    [backend_ok |-> backend_ok, save |-> "ok", typing_ok |-> typing_ok, db_ok |-> TRUE,
     generation |-> "text", answer |-> FallbackText,
     plan |-> <<>>, context |-> <<(<<>>), (<<>>)>>]

Next ==
    \/ run
    \/ /\ pc = "waiting"
       /\ \E message \in Updates, backend_ok \in BOOLEAN :
            IF gate(users, db_messages, message) = "respond"
            THEN \/ \E env \in Environments(message, backend_ok) : handle_message(message, env)
                 \/ handle_message(message, quiet(backend_ok, FALSE))
            ELSE handle_message(message, quiet(backend_ok, TRUE))
    \/ \E message \in DeletedUpdates : handle_deleted_message(message)

Spec == Init /\ [][Next]_vars

(***************************************************************************)
(* _send_with_reference called with every kind of decision, whatever the   *)
(* transport does with each call.                                          *)
(***************************************************************************)
\* a target text longer than the quotation
LongText == [i \in 1..101 |-> IF i = 101 THEN "y" ELSE "h"]

\* the decisions a caller can hand over: each type, with None for the target
\* or with a target whose text is short, long or None
SendDecisions ==
    { [should_reference |-> TRUE, telegram_id |-> target[1], text |-> target[2], type |-> type] :
        type \in {"reply", "forward", "quote"},
        target \in { <<0, (<<>>)>>, <<1, (<<"h">>)>>, <<1, LongText>>, <<1, NoneText>> } }

\* what the transport does with the calls of one _send_with_reference
SendPlans == [1..MaxCalls -> TransportOutcomes]

call_send_with_reference(chat_id, response, decision, original_msg_id, plan) ==
    LET r == send_with_reference(chat_id, response, decision, original_msg_id, plan)
    IN  /\ lastOp' = [op |-> "_send_with_reference", chat_id |-> chat_id,
                      response |-> response, decision |-> decision,
                      original_msg_id |-> original_msg_id,
                      sent |-> r.sent, tried |-> r.tried,
                      transport |-> transported(plan, r.calls), raised |-> r.raised]
        /\ UNCHANGED <<index, metadata, diskIndex, diskMeta>>
        /\ UNCHANGED dbvars

NextSend ==
    \E chat_id \in Chats, response \in {GeneratedText, FallbackText},
       decision \in SendDecisions, plan \in SendPlans :
        call_send_with_reference(chat_id, response, decision, 5, plan)

SpecSend == InitStore /\ [][NextSend]_vars

(***************************************************************************)
(* load() over the files it can find: written by this configuration, by a  *)
(* configuration with another embedding dimension, damaged, or absent.     *)
(***************************************************************************)
\* a vector of an index built with another dimension
foreign_vector == [i \in 1..(dimension + 1) |-> 7]

\* the vectors a persisted index can hold; one index has one dimension
PersistedIndexes ==
    UNION { [1..n -> {embedding_of(<<"h">>), zero_vector}] : n \in 0..MaxStore }
    \cup UNION { [1..n -> {foreign_vector}] : n \in 1..MaxStore }

PersistedMetadata ==
    UNION { [1..n -> {message_dict(1, 1, <<"h">>)}] : n \in 0..MaxStore }

InitLoad ==
    /\ diskIndex \in {Missing, Corrupt} \cup { Written(xb) : xb \in PersistedIndexes }
    /\ diskMeta \in {Missing, Corrupt} \cup { Written(meta) : meta \in PersistedMetadata }
    /\ \E n \in 0..1 :
          /\ index = [i \in 1..n |-> embedding_of(<<"h">>)]
          /\ metadata = [i \in 1..n |-> message_dict(1, 1, <<"h">>)]
    /\ users = [u \in UserIds |-> no_user]
    /\ db_messages = <<>>
    /\ db_references = <<>>
    /\ now = 0
    /\ last_message_dates = no_dates
    /\ pc = "waiting"
    /\ lastOp = [op |-> "none", after_save |-> FALSE]

NextLoad == load \/ construct

SpecLoad == InitLoad /\ [][NextLoad]_vars

(***************************************************************************)
(* add_messages called by tasks of one event loop: a task gives up the     *)
(* loop where it awaits, at the embedding call and at the save.            *)
(***************************************************************************)
Tasks == {1, 2}

MaxShared == 4    \* most records the store and the calls under way hold together

\* a task outside add_messages
idle == [at |-> "idle", valid |-> <<>>]

\* the records of the calls that wait for their embeddings
pending == Len(pc[1].valid) + Len(pc[2].valid)

\* each task stores texts of its own
task_text(t) == IF t = 1 THEN <<"h">> ELSE <<" ", "y">>

TaskBatches(t) ==
    UNION { [1..n -> {message_dict(1, t, <<" ">>), message_dict(1, t, task_text(t))}] :
              n \in 0..MaxBatch }

\* add_messages up to `await self.encode(texts)` (lines 51-56)
call_add_messages(t, messages) ==
    /\ pc[t].at = "idle"
    /\ pc' = [pc EXCEPT ![t] = IF valid_messages(messages) = <<>> THEN idle
                               ELSE [at |-> "encoding", valid |-> valid_messages(messages)]]
    /\ lastOp' = [op |-> "add_messages", task |-> t, at |-> "called"]
    /\ UNCHANGED <<index, metadata, diskIndex, diskMeta, users, db_messages, db_references,
                   now, last_message_dates>>

\* add_messages from the return of encode up to `await self.save()` (lines 56-73)
resume_add_messages(t, backend_ok) ==
    /\ pc[t].at = "encoding"
    /\ \E r \in {added(index, metadata, pc[t].valid, backend_ok)} :
          /\ index' = r[1]
          /\ metadata' = r[2]
          /\ pc' = [pc EXCEPT ![t] = IF r[3] THEN [at |-> "saving", valid |-> <<>>] ELSE idle]
    /\ lastOp' = [op |-> "add_messages", task |-> t, at |-> "appended"]
    /\ UNCHANGED <<diskIndex, diskMeta, users, db_messages, db_references, now, last_message_dates>>

\* save() run for the task, and the return of add_messages
finish_add_messages(t, outcome) ==
    /\ pc[t].at = "saving"
    /\ diskIndex' = saved_index(index, diskIndex, outcome)
    /\ diskMeta' = saved_meta(metadata, diskMeta, outcome)
    /\ pc' = [pc EXCEPT ![t] = idle]
    /\ lastOp' = [op |-> "add_messages", task |-> t, at |-> "returned"]
    /\ UNCHANGED <<index, metadata, users, db_messages, db_references, now, last_message_dates>>

InitTasks ==
    /\ index = <<>>
    /\ metadata = <<>>
    /\ diskIndex = Missing
    /\ diskMeta = Missing
    /\ users = [u \in UserIds |-> no_user]
    /\ db_messages = <<>>
    /\ db_references = <<>>
    /\ now = 0
    /\ last_message_dates = no_dates
    /\ pc = [t \in Tasks |-> idle]
    /\ lastOp = [op |-> "__init__", task |-> 0, at |-> "none"]

NextTasks ==
    \/ \E t \in Tasks : \E messages \in TaskBatches(t) :
          /\ Len(metadata) + pending + Len(messages) <= MaxShared
          /\ call_add_messages(t, messages)
    \/ \E t \in Tasks, backend_ok \in BOOLEAN : resume_add_messages(t, backend_ok)
    \/ \E t \in Tasks, outcome \in SaveOutcomes : finish_add_messages(t, outcome)

SpecTasks == InitTasks /\ [][NextTasks]_vars

(***************************************************************************)
(* search over a store that earlier insertions filled with the records of  *)
(* several conversations.                                                  *)
(***************************************************************************)
MaxCrowd == 4    \* most records the searched store holds

\* the stores: each record of one chat, with one of two texts and its embedding
CrowdedStores ==
    UNION { [1..n -> { message_dict(c, 1, text) : c \in Chats, text \in {<<"h">>, <<" ", "y">>} }] :
              n \in 0..MaxCrowd }

InitCrowded ==
    /\ metadata \in { [i \in 1..Len(store) |-> meta_of(store[i])] : store \in CrowdedStores }
    /\ index = [i \in 1..Len(metadata) |-> embedding_of(metadata[i].text)]
    /\ diskIndex = Written(index)
    /\ diskMeta = Written(metadata)
    /\ users = [u \in UserIds |-> no_user]
    /\ db_messages = <<>>
    /\ db_references = <<>>
    /\ now = 0
    /\ last_message_dates = no_dates
    /\ pc = "waiting"
    /\ lastOp = [op |-> "__init__", after_save |-> FALSE]

NextCrowded ==
    \E query \in Texts, k \in 1..MaxK, chat_id \in Chats \cup {None}, backend_ok \in BOOLEAN :
        search(query, k, chat_id, backend_ok)

SpecCrowded == InitCrowded /\ [][NextCrowded]_vars

(***************************************************************************)
(* generate_response called while the backend answers its requests in      *)
(* every way.                                                              *)
(***************************************************************************)
call_generate_response(outcomes) ==
    /\ \E r \in {generate_response(outcomes)} :
          lastOp' = [op |-> "generate_response", outcomes |-> outcomes,
                     text |-> r.text, requests |-> r.requests, raised |-> r.raised]
    /\ UNCHANGED <<index, metadata, diskIndex, diskMeta>>
    /\ UNCHANGED dbvars

NextGenerate ==
    \E outcomes \in [1..max_retries -> BackendOutcomes] : call_generate_response(outcomes)

SpecGenerate == InitStore /\ [][NextGenerate]_vars

(***************************************************************************)
(* Two messages of one peer bot handled by two tasks, each with a session  *)
(* of its own; a task gives up the loop at every await on the database.    *)
(***************************************************************************)
\* an unaddressed message of the peer bot in the group
PeerBotMessage ==
    [message_id |-> 5, chat_id |-> 2, chat_type |-> "group", from_user |-> tg_user(2),
     text |-> <<"h">>, reply_to_message |-> NoReply]

\* a handler that has not yet read the author's row
called == [at |-> "called", seen |-> no_user]

\* _get_or_create_user: the session reads the row of the author (line 497)
select_user(t) ==
    /\ pc[t].at = "called"
    /\ pc' = [pc EXCEPT ![t] = [at |-> "selected", seen |-> users[PeerBotMessage.from_user.id]]]
    /\ lastOp' = [lastOp EXCEPT !.op = "handle_message", !.task = t]
    /\ UNCHANGED <<index, metadata, diskIndex, diskMeta, users, db_messages, db_references,
                   now, last_message_dates>>

\* _get_or_create_user: the commit of the refreshed names (line 518); with
\* expire_on_commit=False the object keeps the count it was loaded with
commit_user(t) ==
    /\ pc[t].at = "selected"
    /\ pc' = [pc EXCEPT ![t].at = "recorded"]
    /\ lastOp' = [lastOp EXCEPT !.op = "handle_message", !.task = t]
    /\ UNCHANGED <<index, metadata, diskIndex, diskMeta, users, db_messages, db_references,
                   now, last_message_dates>>

\* lines 103-106: the count of the loaded object is incremented and tested,
\* and the commit writes that value to the row
commit_count(t) ==
    /\ pc[t].at = "recorded"
    /\ \E row \in { counted([users EXCEPT ![PeerBotMessage.from_user.id] = pc[t].seen],
                            PeerBotMessage)[PeerBotMessage.from_user.id] } :
          /\ users' = [users EXCEPT ![PeerBotMessage.from_user.id] = row]
          /\ pc' = [pc EXCEPT ![t] = [at |-> "counted", seen |-> row]]
    /\ lastOp' = [lastOp EXCEPT !.op = "handle_message", !.task = t]
    /\ UNCHANGED <<index, metadata, diskIndex, diskMeta, db_messages, db_references,
                   now, last_message_dates>>

InitThrottle ==
    /\ index = <<>>
    /\ metadata = <<>>
    /\ diskIndex = Missing
    /\ diskMeta = Missing
    /\ \E count \in 0..MaxBotCount :
          /\ users = [u \in UserIds |->
                        IF u = 2 THEN [present |-> TRUE, is_bot |-> TRUE,
                                       bot_message_count |-> count]
                        ELSE no_user]
          /\ lastOp = [op |-> "none", task |-> 0, initial |-> count]
    /\ db_messages = <<>>
    /\ db_references = <<>>
    /\ now = 0
    /\ last_message_dates = no_dates
    /\ pc = [t \in Tasks |-> called]

NextThrottle ==
    \E t \in Tasks : select_user(t) \/ commit_user(t) \/ commit_count(t)

SpecThrottle == InitThrottle /\ [][NextThrottle]_vars

(***************************************************************************)
(* DailyMessageScheduler: the loop of start(), one iteration an hour.      *)
(***************************************************************************)
MaxDays == 2    \* days the scheduler is followed

MinutesPerDay == 1440

scheduled_time == 14 * 60 + 0    \* scheduled_hour, scheduled_minute

week == 7 * MinutesPerDay        \* timedelta(days=7)

date_of(t) == t \div MinutesPerDay

\* a scheduler that is in its window at every hour
in_window_all_day(t) == TRUE

\* `abs(current minutes - scheduled minutes) > 60` does not hold
in_window(t) ==
    LET minutes == t % MinutesPerDay
        apart   == IF minutes >= scheduled_time THEN minutes - scheduled_time
                   ELSE scheduled_time - minutes
    IN  ~(apart > 60)

\* a row of messages as the scheduler reads it
scheduler_row(chat_id, user_id, created_at) ==
    [chat_id |-> chat_id, user_id |-> user_id, created_at |-> created_at]

\* chat -1: a person with 4 messages an hour ago; chat -2: a person with one
\* message and the other bot with 4; chat -3: a message 8 days old; private
\* chat 1: a person with 4 messages
SchedulerRows ==
    [i \in 1..4 |-> scheduler_row(-1, 1, -60)]
    \o <<scheduler_row(-2, 1, -60)>>
    \o [i \in 1..4 |-> scheduler_row(-2, 2, -60)]
    \o <<scheduler_row(-3, 1, -8 * MinutesPerDay)>>
    \o [i \in 1..4 |-> scheduler_row(1, 1, -60)]

\* the query of lines 64-73: the group chats with a message of the last 7 days
active_chat_ids(rows, t) ==
    { rows[i].chat_id : i \in { j \in 1..Len(rows) :
        rows[j].chat_id < 0 /\ rows[j].created_at > t - week } }

\* the query of lines 91-104: persons with more than 3 messages of the chat
active_users(rows, table, chat_id, t) ==
    { u \in Users :
        /\ table[u].present
        /\ ~table[u].is_bot
        /\ Cardinality({ i \in 1..Len(rows) :
              /\ rows[i].chat_id = chat_id
              /\ rows[i].user_id = u
              /\ rows[i].created_at > t - week }) > 3 }

\* the parameters of generate_response and the keywords the scheduler calls it with
GenerateParameters ==
    {"message", "user_context", "chat_context", "is_bot_mentioned", "is_reply", "from_bot",
     "username", "temperature"}

DailyKeywords == {"message", "temperature", "max_tokens"}

\* _generate_and_send_message: whether the message was delivered; a keyword
\* that generate_response does not take raises TypeError inside the try
\* block, and `except Exception` swallows it like a failed send
generate_and_send_message(send_ok) ==
    [delivered |-> (DailyKeywords \subseteq GenerateParameters) /\ send_ok, raised |-> FALSE]

\* _send_daily_message_to_chat: an error of the session, or of the code of
\* _generate_and_send_message ahead of its try block, leaves it as an exception
send_daily_message_to_chat(rows, table, chat_id, t, db_ok, send_ok) ==
    IF ~db_ok THEN [delivered |-> FALSE, raised |-> TRUE]
    ELSE IF active_users(rows, table, chat_id, t) = {}
         THEN [delivered |-> FALSE, raised |-> FALSE]
         ELSE generate_and_send_message(send_ok)

\* one turn of the loop of start(): _check_and_send_daily_messages at `now`,
\* then an hour of sleep; query_ok: the query for the active chats succeeds
\* (its exception is caught in start); db_fail: the chats whose
\* _send_daily_message_to_chat meets a database error
scheduler_iteration(query_ok, db_fail, send_ok) ==
    LET today    == date_of(now)
        active   == IF in_window(now) /\ query_ok THEN active_chat_ids(db_messages, now) ELSE {}
        due      == { c \in active :
                        ~(last_message_dates[c] # NoDate
                            /\ date_of(last_message_dates[c]) = today) }
        did(c)   == send_daily_message_to_chat(db_messages, users, c, now,
                                               c \notin db_fail, send_ok)
        same_day == lastOp.op = "_check_and_send_daily_messages" /\ date_of(lastOp.now) = today
    IN  /\ pc = "scheduling"
        /\ last_message_dates' =
              [c \in SchedulerChats |->
                  IF c \in due /\ ~did(c).raised THEN now ELSE last_message_dates[c]]
        /\ now' = now + 60
        /\ lastOp' = [op |-> "_check_and_send_daily_messages", now |-> now,
                      attempted |-> due,
                      delivered |-> { c \in due : did(c).delivered },
                      raised |-> { c \in due : did(c).raised },
                      attempted_earlier |->
                          IF same_day THEN lastOp.attempted_earlier \cup lastOp.attempted
                          ELSE {},
                      returned_earlier |->
                          IF same_day
                          THEN lastOp.returned_earlier \cup (lastOp.attempted \ lastOp.raised)
                          ELSE {}]
        /\ UNCHANGED <<index, metadata, diskIndex, diskMeta, users, db_messages,
                       db_references, pc>>

StartMinutes == {0, 30}

InitScheduler ==
    /\ index = <<>>
    /\ metadata = <<>>
    /\ diskIndex = Missing
    /\ diskMeta = Missing
    /\ users = [u \in UserIds |-> [present |-> TRUE, is_bot |-> (u # 1), bot_message_count |-> 0]]
    /\ db_messages = SchedulerRows
    /\ db_references = <<>>
    /\ pc = "scheduling"
    /\ now \in StartMinutes
    /\ last_message_dates = no_dates
    /\ lastOp = [op |-> "start", now |-> now]

NextScheduler ==
    \E query_ok \in BOOLEAN, db_fail \in SUBSET {-1, -2}, send_ok \in BOOLEAN :
        /\ now < MaxDays * MinutesPerDay
        /\ scheduler_iteration(query_ok, db_fail, send_ok)

SpecScheduler == InitScheduler /\ [][NextScheduler]_vars

(***************************************************************************)
(* Properties of the vector store.                                         *)
(***************************************************************************)
IsQuery == lastOp.op \in {"search", "get_user_context", "get_chat_context"}

\* the metadata dicts a query returned (search returns pairs <<dict, distance>>)
returned_records ==
    IF lastOp.op = "search"
    THEN {lastOp.result[i][1] : i \in 1..Len(lastOp.result)}
    ELSE Range(lastOp.result)

\* C1: whatever add_messages stored, a record of chat c1 is never in the
\* result of search, get_user_context or get_chat_context asked for another
\* chat c2: every returned record carries the chat_id that was asked for.
C1_ChatIsolation ==
    IsQuery => \A m \in returned_records : m.chat_id = lastOp.chat_id

\* C1 witness: a query for one chat returned a record while the store also
\* holds a record of another chat.
C1_Witness ==
    /\ IsQuery
    /\ lastOp.result # <<>>
    /\ \E i \in 1..Len(metadata) : metadata[i].chat_id # lastOp.chat_id

\* C2: search with chat_id = None returns the empty list, whatever the query
\* and the index hold, and changes neither the index, the metadata nor the files.
C2_SearchWithoutChat ==
    [][(lastOp'.op = "search" /\ lastOp'.chat_id = None) =>
          /\ lastOp'.result = <<>>
          /\ UNCHANGED <<index, metadata, diskIndex, diskMeta>>]_vars

\* C2 witness: search without chat_id was asked with a real query of a store
\* that holds records.
C2_Witness ==
    /\ lastOp.op = "search"
    /\ lastOp.chat_id = None
    /\ has_text(lastOp.query)
    /\ Len(index) > 0
    /\ Len(metadata) > 0

\* C3: the index holds as many vectors as metadata holds dicts, and vector i
\* is the embedding (or the zero substitute) of the text of dict i.
C3_ParallelArrays ==
    /\ Len(index) = Len(metadata)
    /\ \A i \in 1..Len(metadata) :
          index[i] \in {embedding_of(metadata[i].text), zero_vector}

\* a text of whitespace only (the empty text included)
is_blank(text) == \A i \in 1..Len(text) : text[i] = " "

\* the messages of a batch that carry text, in order
RECURSIVE with_content(_)
with_content(messages) ==
    IF messages = <<>> THEN <<>>
    ELSE IF is_blank(Head(messages).text) THEN with_content(Tail(messages))
         ELSE <<Head(messages)>> \o with_content(Tail(messages))

\* C4: for every batch, index and metadata each grow by the number of
\* messages whose text is neither empty nor whitespace, those messages are
\* what metadata receives, and a batch without such a message changes nothing.
C4_GrowsByValid ==
    \A messages \in StoreBatches, backend_ok \in BOOLEAN :
        LET r == added(index, metadata, messages, backend_ok)
            n == Len(with_content(messages))
        IN  /\ Len(r[1]) = Len(index) + n
            /\ Len(r[2]) = Len(metadata) + n
            /\ r[2] = metadata \o with_content(messages)
            /\ \A i \in 1..Len(r[2]) : i > Len(metadata) => ~is_blank(r[2][i].text)
            /\ n = 0 => (r[1] = index /\ r[2] = metadata /\ ~r[3])

\* C4 witness: add_messages has stored records and the store holds them.
C4_Witness ==
    /\ lastOp.op = "add_messages"
    /\ lastOp.stored
    /\ lastOp.backend_ok
    /\ Len(index) >= 2
    /\ Len(metadata) >= 2

\* C5: when the embedding call fails for a batch with n texts of content,
\* add_messages still appends the n records to metadata and n zero vectors
\* of the configured dimension to the index, and persists.
C5_ZeroVectorFallback ==
    \A messages \in StoreBatches :
        LET r == added(index, metadata, messages, FALSE)
            n == Len(with_content(messages))
        IN  n > 0 =>
              /\ r[2] = metadata \o with_content(messages)
              /\ Len(r[1]) = Len(index) + n
              /\ SubSeq(r[1], 1, Len(index)) = index
              /\ \A i \in (Len(index) + 1)..Len(r[1]) :
                    /\ DOMAIN r[1][i] = 1..dimension
                    /\ \A d \in 1..dimension : r[1][i][d] = 0
              /\ r[3]

\* C5 witness: add_messages ran with a failing backend and left a zero
\* vector at the end of the index.
C5_Witness ==
    /\ lastOp.op = "add_messages"
    /\ ~lastOp.backend_ok
    /\ lastOp.stored
    /\ Len(index) > 0
    /\ index[Len(index)] = zero_vector

\* C6: load() (also the load() of a new VectorStore) right after a save()
\* that wrote both files of a non-empty store leaves an index of the same
\* size and the same metadata, in the same order.
C6_SaveLoadRoundTrip ==
    [][(/\ lastOp.op = "save"
        /\ lastOp.outcome = "ok"
        /\ Len(metadata) > 0
        /\ lastOp'.op \in {"load", "__init__"}) =>
          /\ Len(index') = Len(index)
          /\ metadata' = metadata]_vars

\* C6 witness: a non-empty store was loaded right after a complete save.
C6_Witness ==
    /\ lastOp.op \in {"load", "__init__"}
    /\ lastOp.after_save
    /\ Len(metadata) > 0
    /\ Len(index) > 0

(***************************************************************************)
(* Properties of handle_message.                                           *)
(***************************************************************************)
Handled == lastOp.op = "handle_message"

\* the records of chat c among the last n records of that chat in meta
chat_tail(meta, c, n) ==
    { meta[i] : i \in { p \in 1..Len(meta) :
        /\ meta[p].chat_id = c
        /\ Cardinality({ q \in 1..Len(meta) : q > p /\ meta[q].chat_id = c }) < n } }

\* C7: the context list handed to the generation call has at most 12
\* entries, no entry twice, and consists of at most 6 records from the tail
\* of the chat context followed by at most 6 other records of the same chat.
C7_ContextBounded ==
    [][(lastOp'.op = "handle_message" /\ lastOp'.generated) =>
          LET ctx == lastOp'.context_messages
              c   == lastOp'.message.chat_id
          IN  /\ Len(ctx) <= 12
              /\ \A i, j \in 1..Len(ctx) : i < j => ctx[i] # ctx[j]
              /\ \E r \in 0..6 :
                    /\ r <= Len(ctx)
                    /\ Len(ctx) - r <= 6
                    /\ \A i \in 1..r : ctx[i] \in chat_tail(metadata, c, 6)
                    /\ \A i \in (r + 1)..Len(ctx) :
                          ctx[i].chat_id = c /\ ctx[i] \in Range(metadata)]_vars

\* C7 witness: a generation call received the full 12 entries, 6 recent
\* and 6 found by similarity.
C7_Witness ==
    /\ Handled
    /\ lastOp.generated
    /\ Len(lastOp.context_messages) = 12

\* the author is recorded as a bot and the message neither mentions the
\* agent nor replies to it
ByUnaddressedBot ==
    /\ Handled
    /\ lastOp.way # "ignored"
    /\ users[lastOp.message.from_user.id].is_bot
    /\ ~contains(<<"@", "b">>, lower(lastOp.message.text))
    /\ ~(lastOp.message.reply_to_message.present
         /\ lastOp.message.reply_to_message.from_user_id = BotId)

CountAfter == users[lastOp.message.from_user.id].bot_message_count

inbound_record(message) ==
    [chat_id |-> message.chat_id, user_id |-> message.from_user.id, username |-> "u",
     text |-> message.text, timestamp |-> 0, message_id |-> message.message_id]

\* C9: when the gate lets no reply be made (the throttle suppressed a bot's
\* message, or the message is not addressed to the agent), handle_message
\* sends nothing, calls no generation, and the vector memory grows by
\* exactly the record of the inbound message.
C9_SilentStillRemembered ==
    [][(lastOp'.op = "handle_message" /\ lastOp'.way \in {"throttled", "not_addressed"}) =>
          /\ lastOp'.sent = <<>>
          /\ ~lastOp'.generated
          /\ metadata' = Append(metadata, inbound_record(lastOp'.message))
          /\ Len(index') = Len(index) + 1
          /\ pc' = "handled"]_vars

\* C9 witness: a group message that is not addressed to the agent was
\* handled and is the last record of the vector memory.
C9_Witness ==
    /\ Handled
    /\ lastOp.way = "not_addressed"
    /\ lastOp.message.chat_type = "group"
    /\ lastOp.sent = <<>>
    /\ Len(metadata) > 0
    /\ metadata[Len(metadata)] = inbound_record(lastOp.message)

\* how many rows of the messages table record this inbound message
recorded(rows, message) ==
    Cardinality({ i \in 1..Len(rows) :
        /\ rows[i].telegram_message_id = message.message_id
        /\ rows[i].chat_id = message.chat_id
        /\ rows[i].user_id = message.from_user.id
        /\ rows[i].text = message.text })

\* C10: handle_message records every inbound message that has text exactly
\* once in the messages table, whichever way the gate takes, and the
\* author has a users row by then (also when the handling stops before the
\* response decision).
C10_RecordedOnce ==
    [][(lastOp'.op = "handle_message" /\ lastOp'.message.text # <<>>) =>
          /\ recorded(db_messages', lastOp'.message)
                = recorded(db_messages, lastOp'.message) + 1
          /\ users'[lastOp'.message.from_user.id].present
          /\ lastOp'.way \in {"throttled", "not_addressed", "respond", "raised"}]_vars

\* C10 witness: a throttled message of a bot is in the messages table.
C10_Witness ==
    /\ Handled
    /\ lastOp.way = "throttled"
    /\ recorded(db_messages, lastOp.message) >= 1
    /\ users[lastOp.message.from_user.id].present

(***************************************************************************)
(* Properties of the reply path of handle_message.                         *)
(***************************************************************************)
\* no call of the transport failed during the handling
TransportUp ==
    /\ lastOp.typing_ok
    /\ \A i \in 1..Len(lastOp.transport) : lastOp.transport[i] = "ok"

\* C11: a message with text in a private conversation from an author that
\* is not a bot always reaches generation, whether or not it mentions the
\* agent or replies to anything, and a reply to it is sent (the transport
\* being up during the handling).
C11_PrivateAlwaysAnswered ==
    (/\ Handled
     /\ lastOp.message.chat_type = "private"
     /\ ~lastOp.message.from_user.is_bot
     /\ lastOp.message.text # <<>>
     /\ TransportUp) =>
        /\ lastOp.way = "respond"
        /\ lastOp.generated
        /\ \E i \in 1..Len(lastOp.sent) :
              /\ lastOp.sent[i].chat_id = lastOp.message.chat_id
              /\ lastOp.sent[i].reply_to_message_id = lastOp.message.message_id

IsSend == lastOp.op = "_send_with_reference"

\* the plain reply to the triggering message
plain_reply == outbound(lastOp.chat_id, lastOp.response, lastOp.original_msg_id)

\* C12: with kind reply and a target, when the send that refers to the target
\* raises BadRequest (and no call fails for another reason), exactly one
\* message is delivered, the plain reply to the triggering message, and no
\* exception leaves _send_with_reference.
C12_UnresolvableTargetFallback ==
    (/\ IsSend
     /\ lastOp.decision.type = "reply"
     /\ lastOp.decision.telegram_id # 0
     /\ lastOp.transport[1] = "BadRequest"
     /\ \A i \in 1..Len(lastOp.transport) : lastOp.transport[i] \in {"ok", "BadRequest"}) =>
        /\ lastOp.sent = <<plain_reply>>
        /\ ~lastOp.raised

\* the `except Exception` handler of handle_message was entered
ExceptionInTry ==
    /\ Handled
    /\ \E i \in 1..Len(lastOp.tried) : lastOp.tried[i].text = ApologyText

\* C13: whenever an exception is raised inside the try block of
\* handle_message, exactly one apology is delivered and handle_message
\* returns without raising.
C13_ApologyAndReturn ==
    ExceptionInTry =>
        /\ Cardinality({ i \in 1..Len(lastOp.sent) : lastOp.sent[i].text = ApologyText }) = 1
        /\ lastOp.outcome # "raised"

\* every failure of the handling is of the four classes: the embedding or
\* the generation backend failed, or a send that refers to a message found
\* it unresolvable
FourClassesOnly ==
    /\ Handled
    /\ lastOp.way \in {"throttled", "not_addressed", "respond"}
    /\ lastOp.typing_ok
    /\ ~lastOp.db_failed
    /\ \A i \in 1..Len(lastOp.transport) :
          lastOp.transport[i] # "ok" =>
              /\ lastOp.transport[i] = "BadRequest"
              /\ lastOp.tried[i].reply_to_message_id # 0

C15_EveryMessageRemembered ==
    [][(/\ lastOp'.op = "handle_message"
        /\ lastOp'.way = "respond"
        /\ lastOp'.typing_ok) =>
          LET new == SubSeq(metadata', Len(metadata) + 1, Len(metadata'))
          IN  /\ inbound_record(lastOp'.message) \in Range(new)
              /\ \A i \in 1..Len(lastOp'.sent) :
                    \E j \in 1..Len(new) :
                        /\ new[j].user_id = BotId
                        /\ new[j].chat_id = lastOp'.sent[i].chat_id
                        /\ new[j].text \in {lastOp'.sent[i].text, lastOp'.response}]_vars

\* the answers of the decision call that hold the affirmative token
SaysYes == { <<"T", "r", "u", "e">>, <<"t", "R", "U", "E", "3", "forward">> }

\* a message the agent sends with a reference: framed, or replying to
\* another message than the triggering one
with_reference(m, message, response) ==
    \/ m.text \notin {response, ApologyText}
    \/ m.reply_to_message_id \notin {0, message.message_id}
    \/ m.forward_of # 0

\* C16: when the answer of the decision call lacks the affirmative token
\* (the fallback text of a failed call included) the decision is not to
\* reference and no message is sent, or tried, with a reference; with an
\* empty candidate list the decision is not to reference whatever the answer.
C16_DecisionFailSafe ==
    /\ (Handled /\ lastOp.generated /\ lastOp.answer \notin SaysYes) =>
          /\ ~lastOp.decision.should_reference
          /\ \A i \in 1..Len(lastOp.tried) :
                ~with_reference(lastOp.tried[i], lastOp.message, lastOp.response)
    /\ \A answer \in DecisionAnswers :
          ~should_reference_message(<<>>, answer).should_reference

\* C16 witness: the decision call answered no while candidates existed, and
\* the plain reply was sent.
C16_Witness ==
    /\ Handled
    /\ lastOp.generated
    /\ lastOp.answer = <<"n", "o">>
    /\ Len(find_relevant_messages(db_messages, lastOp.message.chat_id)) >= 2
    /\ lastOp.sent = <<outbound(lastOp.message.chat_id, lastOp.response,
                                lastOp.message.message_id)>>

\* the newest row of a chat in the messages table
newest_row(rows, chat_id) ==
    rows[CHOOSE i \in 1..Len(rows) :
            /\ rows[i].chat_id = chat_id
            /\ \A j \in 1..Len(rows) : rows[j].chat_id = chat_id => j <= i]

\* C17: when the answer holds the affirmative token in any case, the
\* decision is to reference, by a reply, the most recent candidate (the
\* newest row of the chat), whatever index or style the answer names.
C17_AffirmativeMeansNewestReply ==
    [][(/\ lastOp'.op = "handle_message"
        /\ lastOp'.generated
        /\ lastOp'.answer \in SaysYes) =>
          LET rows == store_message_in_db(db_messages, lastOp'.message)
          IN  /\ lastOp'.decision.should_reference
              /\ lastOp'.decision.type = "reply"
              /\ lastOp'.decision.telegram_id
                    = newest_row(rows, lastOp'.message.chat_id).telegram_message_id
              /\ lastOp'.tried[1]
                    = outbound(lastOp'.message.chat_id, <<"ref">> \o lastOp'.response,
                               newest_row(rows, lastOp'.message.chat_id).telegram_message_id)]_vars

\* C17 witness: the answer named index 3 and style forward, the chat had
\* several candidates, and the reply went out as a reply to the newest one.
C17_Witness ==
    /\ Handled
    /\ lastOp.generated
    /\ lastOp.answer = <<"t", "R", "U", "E", "3", "forward">>
    /\ Len(find_relevant_messages(db_messages, lastOp.message.chat_id)) >= 3
    /\ lastOp.decision.type = "reply"
    /\ lastOp.sent # <<>>
    /\ lastOp.sent[1].reply_to_message_id = lastOp.decision.telegram_id

(***************************************************************************)
(* Properties of load().                                                   *)
(***************************************************************************)
\* C18: load() leaves an index and a metadata list of one length: both
\* empty, both as the files hold them, or (a file being absent) both as
\* they were.
C18_LoadAllOrNothing ==
    [][lastOp'.op \in {"load", "__init__"} =>
          /\ Len(index') = Len(metadata')
          /\ \/ index' = <<>> /\ metadata' = <<>>
             \/ /\ diskIndex.file = "written" /\ diskMeta.file = "written"
                /\ index' = diskIndex.data /\ metadata' = diskMeta.data
             \/ /\ diskIndex.file = "missing" \/ diskMeta.file = "missing"
                /\ UNCHANGED <<index, metadata>>]_vars

\* C19: when both files are readable, hold as many vectors as dicts, and
\* the vectors of the persisted index do not have the configured dimension,
\* load() leaves an empty index and empty metadata.
C19_DimensionMismatchResets ==
    (/\ lastOp.op \in {"load", "__init__"}
     /\ diskIndex.file = "written"
     /\ diskMeta.file = "written"
     /\ Len(diskMeta.data) = Len(diskIndex.data)
     /\ \E i \in 1..Len(diskIndex.data) : Len(diskIndex.data[i]) # dimension) =>
        /\ index = <<>>
        /\ metadata = <<>>

(***************************************************************************)
(* Properties of _send_with_reference.                                     *)
(***************************************************************************)
\* the first call the transport failed
first_failure ==
    CHOOSE g \in 1..Len(lastOp.transport) :
        /\ lastOp.transport[g] # "ok"
        /\ \A j \in 1..(g - 1) : lastOp.transport[j] = "ok"

\* the call whose failure reached the outer handler, if any did: the call
\* after an unresolvable target of kind reply or forward, or else the first
\* call that failed
outer_failure ==
    IF /\ lastOp.decision.telegram_id # 0
       /\ lastOp.decision.type \in {"reply", "forward"}
       /\ lastOp.transport[first_failure] = "BadRequest"
    THEN first_failure + 1
    ELSE first_failure

\* a transport failure other than an unresolvable target happened in the flow
OtherFailure ==
    /\ IsSend
    /\ \E g \in 1..Len(lastOp.transport) : lastOp.transport[g] # "ok"
    /\ outer_failure <= Len(lastOp.transport)
    /\ lastOp.transport[outer_failure] = "TelegramError"

plain_sent == { i \in 1..Len(lastOp.sent) : lastOp.sent[i] = plain_reply }

\* C20 as claimed: for every kind, such a failure leads to exactly one plain
\* reply to the triggering message being delivered.
C20_LastResortDelivered ==
    OtherFailure =>
        /\ Cardinality(plain_sent) = 1
        /\ ~lastOp.raised

\* C20 amended: for every kind, such a failure is followed by exactly one
\* more call, the plain unframed reply to the triggering message; when the
\* transport accepts it, it is the one plain reply delivered and the last
\* message delivered, and no exception leaves; when the transport refuses
\* it too, no plain reply is delivered and the error leaves _send_with_reference.
C20_LastResortTried ==
    OtherFailure =>
        /\ Len(lastOp.tried) = outer_failure + 1
        /\ lastOp.tried[outer_failure + 1] = plain_reply
        /\ lastOp.transport[outer_failure + 1] = "ok" =>
              /\ ~lastOp.raised
              /\ lastOp.sent # <<>>
              /\ lastOp.sent[Len(lastOp.sent)] = plain_reply
              /\ Cardinality(plain_sent) = 1
        /\ lastOp.transport[outer_failure + 1] # "ok" =>
              /\ lastOp.raised
              /\ plain_sent = {}

\* C20 witness: kind forward, the target was forwarded, the follow-up met a
\* failure of the transport, and the plain reply went out.
C20_Witness ==
    /\ OtherFailure
    /\ lastOp.decision.type = "forward"
    /\ lastOp.transport = <<"ok", "TelegramError", "ok">>
    /\ Len(lastOp.sent) = 2
    /\ lastOp.sent[1].forward_of = lastOp.decision.telegram_id
    /\ lastOp.sent[2] = plain_reply
    /\ ~lastOp.raised

(***************************************************************************)
(* Properties of the queries: size, order and recency.                     *)
(***************************************************************************)
\* C21: search(query, k, chat_id) returns at most k results, each no nearer
\* than the one before it, and returns the empty list when the query is empty
\* or whitespace or when the index holds nothing.
C21_SearchBoundedAndOrdered ==
    lastOp.op = "search" =>
        /\ Len(lastOp.result) <= lastOp.k
        /\ \A i, j \in 1..Len(lastOp.result) :
              i < j => lastOp.result[i][2] <= lastOp.result[j][2]
        /\ (is_blank(lastOp.query) \/ Len(index) = 0) => lastOp.result = <<>>

\* C21 witness: a search returned two records at different distances, the
\* nearer one first.
C21_Witness ==
    /\ lastOp.op = "search"
    /\ Len(lastOp.result) = 2
    /\ lastOp.result[1][2] < lastOp.result[2][2]

\* the records a recency query is asked about, oldest first
asked_records ==
    LET wanted(m) == /\ m.chat_id = lastOp.chat_id
                     /\ lastOp.op = "get_user_context" => m.user_id = lastOp.user_id
    IN  SelectSeq(metadata, wanted)

\* C22: for every limit >= 0, get_chat_context(c, limit) returns exactly the
\* last min(limit, n) of the n records of chat c, oldest first, and
\* get_user_context(u, c, limit) the same of the records of u in c; neither
\* returns more than limit records.
C22_LastLimitRecords ==
    lastOp.op \in {"get_chat_context", "get_user_context"} =>
        LET n    == Len(asked_records)
            took == Min(lastOp.limit, n)
        IN  /\ lastOp.result = SubSeq(asked_records, n - took + 1, n)
            /\ Len(lastOp.result) <= lastOp.limit

(***************************************************************************)
(* Properties of the context handed to generation.                         *)
(***************************************************************************)
\* the last n records of user u in chat c, oldest first
user_tail(meta, u, c, n) ==
    LET mine == { p \in 1..Len(meta) : meta[p].user_id = u /\ meta[p].chat_id = c }
        kept == { p \in mine : Cardinality({ q \in mine : q > p }) < n }
    IN  [i \in 1..Cardinality(kept) |->
            meta[CHOOSE p \in kept : Cardinality({ q \in kept : q < p }) = i - 1]]

\* C23: in a group or supergroup the user-specific context handed to
\* generation is empty and the context consists of records of that chat (its
\* recent tail, then similarity results); in a private conversation the
\* user-specific context is the up to 6 most recent records of the author in
\* that conversation, and the context starts with up to 6 records of the
\* chat's tail.
C23_ContextByScope ==
    [][(lastOp'.op = "handle_message" /\ lastOp'.generated) =>
          LET message == lastOp'.message
              ctx     == lastOp'.context_messages
              c       == message.chat_id
              recent  == Min(Cardinality(chat_tail(metadata, c, 6)), Len(ctx))
          IN  /\ \A i \in 1..Len(ctx) : ctx[i].chat_id = c /\ ctx[i] \in Range(metadata)
              /\ \A i \in 1..recent : ctx[i] \in chat_tail(metadata, c, 6)
              /\ IF message.chat_type \in {"group", "supergroup"}
                 THEN lastOp'.user_context = <<>>
                 ELSE /\ lastOp'.user_context = user_tail(metadata, message.from_user.id, c, 6)
                      /\ Len(lastOp'.user_context) <= 6]_vars

\* C23 witness: in the private conversation the author had at least 7
\* records (8 with the one this handling added) and generation was handed
\* exactly 6 of them.
C23_Witness ==
    /\ Handled
    /\ lastOp.generated
    /\ lastOp.message.chat_type = "private"
    /\ Len(lastOp.user_context) = 6
    /\ Cardinality({ p \in 1..Len(metadata) :
           /\ metadata[p].user_id = lastOp.message.from_user.id
           /\ metadata[p].chat_id = lastOp.message.chat_id }) >= 8

\* C24: the request posted to the generation backend for a reply carries
\* the merged context together with the message: a handling that assembled
\* some context posts another request than the same message posts when
\* nothing was assembled.
C24_RequestCarriesContext ==
    (/\ Handled
     /\ lastOp.generated
     /\ (lastOp.user_context # <<>> \/ lastOp.context_messages # <<>>)) =>
        lastOp.reply_request[1] #
            generate_request(lastOp.message.text, <<>>, <<>>,
                             is_bot_mentioned(lastOp.message.text),
                             is_reply_to_bot(lastOp.message),
                             users[lastOp.message.from_user.id].is_bot,
                             username_of(lastOp.message.from_user))

(***************************************************************************)
(* Properties of the quoting reply.                                        *)
(***************************************************************************)
\* C25: with kind = quote and a transport that accepts every call,
\* _send_with_reference sends exactly one message, a reply to the triggering
\* message whose text is the first 100 characters of the target's text (none
\* for a target without text) followed by the response, and raises nothing.
C25_QuoteAlwaysSent ==
    (/\ IsSend
     /\ lastOp.decision.type = "quote"
     /\ \A i \in 1..Len(lastOp.transport) : lastOp.transport[i] = "ok") =>
        LET target_text == IF lastOp.decision.text = NoneText THEN <<>>
                           ELSE lastOp.decision.text
            shown == SubSeq(target_text, 1, Min(100, Len(target_text)))
        IN  /\ ~lastOp.raised
            /\ lastOp.sent = <<[chat_id |-> lastOp.chat_id,
                                text |-> <<"quote">> \o shown \o lastOp.response,
                                reply_to_message_id |-> lastOp.original_msg_id,
                                forward_of |-> 0]>>

(***************************************************************************)
(* Properties of the throttle counter.                                     *)
(***************************************************************************)
\* C26: a user's bot_message_count changes only when handle_message
\* processes a message of an author recorded as a bot that neither mentions
\* the agent nor replies to it, and then it grows by exactly 1; for every
\* other author, message and operation it stays as it is.
C26_CounterOnlyCounts ==
    [][\A u \in UserIds :
          LET message == lastOp'.message
              counts  == /\ lastOp'.op = "handle_message"
                         /\ message.text # <<>>
                         /\ message.from_user.id = u
                         /\ users'[u].is_bot
                         /\ ~contains(<<"@", "b">>, lower(message.text))
                         /\ ~(message.reply_to_message.present
                              /\ message.reply_to_message.from_user_id = BotId)
          IN  users'[u].bot_message_count =
                  IF counts THEN users[u].bot_message_count + 1
                  ELSE users[u].bot_message_count]_vars

\* C26 witness: the counter of a bot stood at 10, its next unaddressed
\* message in a group was counted as the 11th and throttled.
C26_Witness ==
    /\ ByUnaddressedBot
    /\ lastOp.message.chat_type = "group"
    /\ lastOp.way = "throttled"
    /\ CountAfter = 11

(***************************************************************************)
(* Properties of concurrent insertion and of durability.                   *)
(***************************************************************************)
\* C27: whatever the interleaving of concurrent add_messages calls, a
\* batch's vectors and dicts are appended in one step: the index holds as
\* many vectors as metadata holds dicts wherever a task is suspended, and a
\* batch lands on the same consecutive positions of both, behind what the
\* other writers had appended before.
C27_AppendAtomic ==
    [][/\ Len(index') = Len(metadata')
       /\ \A t \in Tasks :
            (pc[t].at = "encoding" /\ pc'[t].at = "saving") =>
                LET batch == pc[t].valid
                    first == Len(metadata)
                IN  /\ Len(index) = first
                    /\ Len(metadata') = first + Len(batch)
                    /\ SubSeq(metadata', 1, first) = metadata
                    /\ SubSeq(index', 1, first) = index
                    /\ \A i \in 1..Len(batch) :
                          /\ metadata'[first + i].text = batch[i].text
                          /\ metadata'[first + i].user_id = batch[i].user_id
                          /\ index'[first + i] \in {embedding_of(batch[i].text), zero_vector}]_vars

\* C27 witness: both tasks are suspended at their save, the batch of two of
\* task 2 in front of the batch of two of task 1.
C27_Witness ==
    /\ lastOp.op = "add_messages"
    /\ lastOp.at = "appended"
    /\ pc[1].at = "saving"
    /\ pc[2].at = "saving"
    /\ Len(metadata) = 4
    /\ Len(index) = 4
    /\ metadata[1].user_id = 2
    /\ metadata[3].user_id = 1

\* C28: when add_messages has appended records and returned to its caller
\* without raising, the two files hold the index and the metadata with those
\* records: a save that failed is not reported as success.
C28_DurableBeforeReturn ==
    (lastOp.op = "add_messages" /\ lastOp.stored) =>
        /\ diskIndex = Written(index)
        /\ diskMeta = Written(metadata)

(***************************************************************************)
(* Properties of records stored without an embedding.                      *)
(***************************************************************************)
\* C29: a record inserted with the zero vector in place of its embedding is
\* never returned by search, whatever the query: every returned record
\* stands at a position whose vector is not the zero vector; the recency
\* queries return such a record like any other record of its conversation.
C29_ZeroVectorUnsearchable ==
    /\ lastOp.op = "search" =>
          \A j \in 1..Len(lastOp.result) :
              \E i \in 1..Len(metadata) :
                  metadata[i] = lastOp.result[j][1] /\ index[i] # zero_vector
    /\ (lastOp.op \in {"get_chat_context", "get_user_context"}
          /\ lastOp.limit >= Len(metadata) /\ lastOp.limit > 0) =>
          \A i \in 1..Len(metadata) :
              (/\ metadata[i].chat_id = lastOp.chat_id
               /\ lastOp.op = "get_user_context" => metadata[i].user_id = lastOp.user_id)
                  => metadata[i] \in Range(lastOp.result)

(***************************************************************************)
(* Properties of the reference target.                                     *)
(***************************************************************************)
\* C30: whenever handle_message sends a reply with a reference, the target
\* is a message of the same conversation that was recorded before the
\* triggering message arrived, and it is not the triggering message itself.
C30_TargetStrictlyEarlier ==
    [][(/\ lastOp'.op = "handle_message"
        /\ lastOp'.decision.should_reference
        /\ lastOp'.sent # <<>>
        /\ lastOp'.sent[1].text = <<"ref">> \o lastOp'.response
        /\ lastOp'.sent[1].reply_to_message_id = lastOp'.decision.telegram_id) =>
          /\ lastOp'.decision.telegram_id # lastOp'.message.message_id
          /\ \E i \in 1..Len(db_messages) :
                /\ db_messages[i].chat_id = lastOp'.message.chat_id
                /\ db_messages[i].telegram_message_id = lastOp'.decision.telegram_id]_vars

(***************************************************************************)
(* Properties of the over-fetch of search.                                 *)
(***************************************************************************)
\* the vector search compares with: the embedding of the query, or the zero
\* substitute when the embedding call failed
asked_vector == IF lastOp.backend_ok THEN embedding_of(lastOp.query) ELSE zero_vector

\* the positions of the records of the chat that was asked for
asked_positions == { i \in 1..Len(metadata) : metadata[i].chat_id = lastOp.chat_id }

\* C31: whatever the index holds of several conversations, search(query, k, c)
\* returns min(k, n_c) records, n_c being the number of records of c, and
\* they are the nearest of c: fewer than j records of c lie nearer to the
\* query than the j-th result.
C31_NearestOfChat ==
    (lastOp.op = "search" /\ has_text(lastOp.query) /\ lastOp.chat_id # None) =>
        /\ Len(lastOp.result) = Min(lastOp.k, Cardinality(asked_positions))
        /\ \A j \in 1..Len(lastOp.result) :
              Cardinality({ i \in asked_positions :
                  l2_distance(index[i], asked_vector) < lastOp.result[j][2] }) < j

(***************************************************************************)
(* Properties of generate_response.                                        *)
(***************************************************************************)
\* the requests before the i-th were answered by 429, a timeout or an exception
retried_until(i) == \A j \in 1..(i - 1) : lastOp.outcomes[j] \in {"429", "timeout", "exception"}

\* C32: for every sequence of backend outcomes generate_response returns a
\* text without raising after at most 3 requests: a status other than 200
\* and 429 returns the fallback text without another request, three 429 in
\* a row return the rate-limit text, three timeouts or exceptions in a row
\* return the fallback text.
C32_GenerateTerminates ==
    lastOp.op = "generate_response" =>
        /\ ~lastOp.raised
        /\ lastOp.requests \in 1..3
        /\ lastOp.text \in {GeneratedText, FallbackText, RateLimitText}
        /\ \A i \in 1..3 :
              (retried_until(i) /\ lastOp.outcomes[i] = "status") =>
                  (lastOp.text = FallbackText /\ lastOp.requests = i)
        /\ (\A i \in 1..3 : lastOp.outcomes[i] = "429") =>
              (lastOp.text = RateLimitText /\ lastOp.requests = 3)
        /\ (\A i \in 1..3 : lastOp.outcomes[i] \in {"timeout", "exception"}) =>
              (lastOp.text = FallbackText /\ lastOp.requests = 3)

\* C32 witness: the backend answered 429 three times and the caller got the
\* rate-limit text after the third request.
C32_Witness ==
    /\ lastOp.op = "generate_response"
    /\ \A i \in 1..3 : lastOp.outcomes[i] = "429"
    /\ lastOp.text = RateLimitText
    /\ lastOp.requests = 3

(***************************************************************************)
(* Properties of what one handling delivers.                               *)
(***************************************************************************)
\* the delivered messages that carry the generated response
replies_delivered ==
    { i \in 1..Len(lastOp.sent) :
        /\ lastOp.sent[i].forward_of = 0
        /\ lastOp.sent[i].text \in { lastOp.response, <<"ref">> \o lastOp.response,
                                     <<"above">> \o lastOp.response } }

apologies_delivered == { i \in 1..Len(lastOp.sent) : lastOp.sent[i].text = ApologyText }

\* C33: for one triggering message handle_message delivers a reply that
\* carries the generated response or the apology, never both.
C33_ReplyOrApology ==
    (Handled /\ lastOp.generated) =>
        ~(replies_delivered # {} /\ apologies_delivered # {})

\* C34: in the insertion order of the vector memory the record of the
\* triggering message stands before the record of the agent's reply to it.
C34_InboundBeforeReply ==
    [][lastOp'.op = "handle_message" =>
          \A i, j \in (Len(metadata) + 1)..Len(metadata') :
              (/\ metadata'[i] = inbound_record(lastOp'.message)
               /\ metadata'[j].user_id = BotId
               /\ metadata'[j].text = lastOp'.response) => i < j]_vars

C36_ResolvedWithinChat ==
    [][/\ lastOp'.op = "handle_message" =>
            /\ lastOp'.way # "raised"
            /\ \A e \in (Len(db_references) + 1)..Len(db_references') :
                  db_messages'[db_references'[e].to_message_id].chat_id
                      = lastOp'.message.chat_id
       /\ lastOp'.op = "handle_deleted_message" =>
            /\ lastOp'.outcome # "raised"
            /\ \A i \in 1..Len(db_messages) :
                  (db_messages'[i].is_deleted /\ ~db_messages[i].is_deleted) =>
                      db_messages[i].chat_id = lastOp'.message.chat_id]_vars

(***************************************************************************)
(* Properties of the gateway calls of handle_message.                      *)
(***************************************************************************)
\* C37: once the gate has passed, no failure of a call to the messaging
\* gateway (the typing indicator, the reply, the plain reply of
\* _send_with_reference, the apology) leaves handle_message as an exception.
C37_GatewayFailuresContained ==
    (Handled /\ lastOp.way = "respond"
        /\ (~lastOp.typing_ok \/ \E i \in 1..Len(lastOp.transport) : lastOp.transport[i] # "ok")) =>
        lastOp.outcome # "raised"

(***************************************************************************)
(* Properties of the daily message scheduler.                              *)
(***************************************************************************)
IsCheck == lastOp.op = "_check_and_send_daily_messages"

\* the chats an iteration may attempt: groups with a message of the last 7
\* days, and only within 60 minutes of the scheduled time
attempts_allowed ==
    /\ \A c \in lastOp.attempted :
          /\ c < 0
          /\ \E i \in 1..Len(db_messages) :
                /\ db_messages[i].chat_id = c
                /\ db_messages[i].created_at > lastOp.now - 7 * 1440
    /\ lastOp.attempted # {} =>
          /\ lastOp.now % 1440 >= 13 * 60
          /\ lastOp.now % 1440 <= 15 * 60

\* C38 as claimed: over the iterations of the loop a chat is attempted at
\* most once per calendar day, only if it is a group active in the last 7
\* days, and only within 60 minutes of the scheduled time.
C38_OnceADay ==
    IsCheck =>
        /\ lastOp.attempted \cap lastOp.attempted_earlier = {}
        /\ attempts_allowed

\* C38 amended: a chat is not attempted again on a day on which an attempt
\* for it has returned without an exception (an attempt that raised is
\* repeated at the next iteration inside the window); attempts are made
\* only for groups active in the last 7 days and only within 60 minutes of
\* the scheduled time.
C38_OnceADayUnlessRaised ==
    IsCheck =>
        /\ lastOp.attempted \cap lastOp.returned_earlier = {}
        /\ attempts_allowed

\* C38 witness: at 14:00 of the second day chat -1, served an hour before,
\* is passed over, and chat -2, whose attempt had raised, is attempted again.
C38_Witness ==
    /\ IsCheck
    /\ lastOp.now = 1440 + 14 * 60
    /\ -1 \in lastOp.returned_earlier
    /\ -1 \notin lastOp.attempted
    /\ -2 \in lastOp.attempted_earlier
    /\ -2 \in lastOp.attempted

\* C39: a chat is recorded as served for the day only if a daily message
\* was delivered to it in that iteration: after an iteration every chat whose
\* last_message_dates entry is the time of the iteration received a message.
C39_ServedOnlyIfDelivered ==
    IsCheck =>
        \A c \in SchedulerChats :
            last_message_dates[c] = lastOp.now => c \in lastOp.delivered

====
